---------------------------- MODULE Spec2Model ----------------------------
(***************************************************************************)
(* A model of alsparse: the Ableton project parser                         *)
(* (src/alsparse/ableton/parser.py) and the entity model it populates      *)
(* (src/alsparse/ableton/entities.py).                                     *)
(*                                                                         *)
(* Conventions.                                                            *)
(*   - Python str values are TLA+ strings; bytes values are sequences of   *)
(*     integers 0..255.                                                    *)
(*   - Python floats are exact rationals <<n, d>> in lowest terms, d > 0   *)
(*     (rounding of IEEE doubles is not modelled).                         *)
(*   - A Python call that may raise returns a record                       *)
(*     [ok, val, exc]: ok = TRUE with the value, or ok = FALSE with the    *)
(*     name of the exception type.                                         *)
(*   - A Python object is a record whose field oid is its identity: the    *)
(*     number of entities created before it.  A reference to an object,    *)
(*     such as the parent of an entity, is Ref of the oid of that object.  *)
(***************************************************************************)
EXTENDS Integers, Sequences, FiniteSets, TLC

(***************************************************************************)
(* Python values                                                           *)
(***************************************************************************)
None == [kind |-> "None"]

Ref(oid) == [kind |-> "ref", oid |-> oid]

Ok(v) == [ok |-> TRUE, val |-> v, exc |-> ""]

Raise(e) == [ok |-> FALSE, val |-> None, exc |-> e]

\* the statements after a call that may raise: F of its value, or its exception
Bind(r, F(_)) == IF r.ok THEN F(r.val) ELSE r

Abs(x) == IF x < 0 THEN -x ELSE x

RECURSIVE GCD(_, _)
GCD(a, b) == IF b = 0 THEN a ELSE GCD(b, a % b)

\* the float n/d, d # 0, in lowest terms with a positive denominator
Frac(n, d) ==
    LET s == IF d < 0 THEN -1 ELSE 1
        g == GCD(Abs(n), Abs(d))
    IN  <<(s * n) \div g, (s * d) \div g>>

FInt(i) == <<i, 1>>

FAdd(a, b) == Frac(a[1] * b[2] + b[1] * a[2], a[2] * b[2])

FSub(a, b) == Frac(a[1] * b[2] - b[1] * a[2], a[2] * b[2])

FMul(a, b) == Frac(a[1] * b[1], a[2] * b[2])

\* a / b for b # 0
FDiv(a, b) == Frac(a[1] * b[2], a[2] * b[1])

FLeq(a, b) == a[1] * b[2] <= b[1] * a[2]

FLt(a, b) == a[1] * b[2] < b[1] * a[2]

FIsZero(a) == a[1] = 0

\* int(x) of a float: truncation toward zero
FTrunc(a) == IF a[1] >= 0 THEN a[1] \div a[2] ELSE -((-a[1]) \div a[2])

\* range(n): the integers 0 .. n-1 in order, empty for n <= 0
Range(n) == [i \in 1..(IF n > 0 THEN n ELSE 0) |-> i - 1]

\* bytes.startswith / str.startswith
StartsWith(s, prefix) ==
    /\ Len(s) >= Len(prefix)
    /\ SubSeq(s, 1, Len(prefix)) = prefix

(***************************************************************************)
(* Container sniffer: AbletonParser.is_xml, is_gzip, probe_content         *)
(***************************************************************************)
\* b'<?xml version="1.0" encoding="UTF-8"?>'
XML_PROLOG ==
    <<60, 63, 120, 109, 108, 32, 118, 101, 114, 115, 105, 111, 110, 61, 34,
      49, 46, 48, 34, 32, 101, 110, 99, 111, 100, 105, 110, 103, 61, 34, 85,
      84, 70, 45, 56, 34, 63, 62>>

\* b'\x1f\x8b'
GZIP_MAGIC == <<31, 139>>

is_xml(content) == StartsWith(content, XML_PROLOG)

\* only the first byte of the magic is looked at
is_gzip_first_byte(content) == Len(content) >= 1 /\ content[1] = 31

is_gzip(content) == StartsWith(content, GZIP_MAGIC)

probe_content(content) == is_xml(content) \/ is_gzip(content)

(***************************************************************************)
(* gzip.decompress (standard library), reduced to the container's framing: *)
(* magic, method byte 8, the payload stored as it is, and a trailer of a   *)
(* checksum byte and a length byte.  A stream that is short, names another *)
(* method or whose trailer does not match the payload raises.              *)
(***************************************************************************)
RECURSIVE ByteSum(_)
ByteSum(bs) == IF bs = <<>> THEN 0 ELSE (Head(bs) + ByteSum(Tail(bs))) % 256

gzip_compress(payload) ==
    GZIP_MAGIC \o <<8>> \o payload \o <<ByteSum(payload), Len(payload) % 256>>

GzipPayload(content, payload) ==
    IF /\ content[Len(content) - 1] = ByteSum(payload)
       /\ content[Len(content)] = Len(payload) % 256
    THEN Ok(payload)
    ELSE Raise("BadGzipFile")

gzip_decompress(content) ==
    IF Len(content) < 5 \/ ~is_gzip(content) \/ content[3] # 8
    THEN Raise("BadGzipFile")
    ELSE GzipPayload(content, SubSeq(content, 4, Len(content) - 2))

\* hashlib.md5(content).hexdigest() (standard library): a deterministic
\* digest of the bytes, here a positional checksum
RECURSIVE md5(_)
md5(bs) ==
    IF bs = <<>> THEN 7
    ELSE (md5(SubSeq(bs, 1, Len(bs) - 1)) * 31 + bs[Len(bs)] + Len(bs)) % 65521


(***************************************************************************)
(* str operations                                                          *)
(***************************************************************************)
\* s[i:i+1] at the 1-based index i: the empty string outside the string
CharAt(s, i) == IF 1 <= i /\ i <= Len(s) THEN SubSeq(s, i, i) ELSE ""

\* the first index from i on where s holds old, 0 when there is none
RECURSIVE IndexOf(_, _, _)
IndexOf(s, old, i) ==
    IF i + Len(old) - 1 > Len(s) THEN 0
    ELSE IF SubSeq(s, i, i + Len(old) - 1) = old THEN i
    ELSE IndexOf(s, old, i + 1)

\* str.replace(old, new), old non-empty: every occurrence, left to right
RECURSIVE Replace(_, _, _)
RECURSIVE ReplaceAt(_, _, _, _)
Replace(s, old, new) == ReplaceAt(s, old, new, IndexOf(s, old, 1))

ReplaceAt(s, old, new, i) ==
    IF i = 0 THEN s
    ELSE SubSeq(s, 1, i - 1) \o new \o Replace(SubSeq(s, i + Len(old), Len(s)), old, new)

\* str.strip() for blanks
RECURSIVE Strip(_)
Strip(s) ==
    IF Len(s) > 0 /\ CharAt(s, 1) = " " THEN Strip(SubSeq(s, 2, Len(s)))
    ELSE IF Len(s) > 0 /\ CharAt(s, Len(s)) = " " THEN Strip(SubSeq(s, 1, Len(s) - 1))
    ELSE s

\* '.'.join(path)
RECURSIVE Join(_)
Join(path) ==
    IF path = <<>> THEN ""
    ELSE IF Len(path) = 1 THEN path[1]
    ELSE path[1] \o "." \o Join(Tail(path))

(***************************************************************************)
(* int(str), float(str) and MINOR_REGEX                                    *)
(***************************************************************************)
Digits == {"0", "1", "2", "3", "4", "5", "6", "7", "8", "9"}

DigitValue(c) ==
    CASE c = "0" -> 0 [] c = "1" -> 1 [] c = "2" -> 2 [] c = "3" -> 3
      [] c = "4" -> 4 [] c = "5" -> 5 [] c = "6" -> 6 [] c = "7" -> 7
      [] c = "8" -> 8 [] OTHER -> 9

\* the index after the longest run of digits of s that starts at i
RECURSIVE DigitsEnd(_, _)
DigitsEnd(s, i) ==
    IF i <= Len(s) /\ CharAt(s, i) \in Digits THEN DigitsEnd(s, i + 1) ELSE i

\* the value of a string of digits, most significant first
RECURSIVE DigitsValue(_)
DigitsValue(s) ==
    IF Len(s) = 0 THEN 0
    ELSE DigitsValue(SubSeq(s, 1, Len(s) - 1)) * 10 + DigitValue(CharAt(s, Len(s)))

\* digits, with single underscores allowed between digits (PEP 515)
IsDigitString(s) ==
    /\ Len(s) > 0
    /\ CharAt(s, 1) \in Digits
    /\ CharAt(s, Len(s)) \in Digits
    /\ \A i \in 1..Len(s) :
          \/ CharAt(s, i) \in Digits
          \/ CharAt(s, i) = "_" /\ CharAt(s, i + 1) \in Digits

Unsigned(s) == IF CharAt(s, 1) \in {"+", "-"} THEN SubSeq(s, 2, Len(s)) ELSE s

SignOf(s) == IF CharAt(s, 1) = "-" THEN -1 ELSE 1

ParseIntStripped(t) ==
    IF IsDigitString(Unsigned(t))
    THEN Ok(SignOf(t) * DigitsValue(Replace(Unsigned(t), "_", "")))
    ELSE Raise("ValueError")

\* int(s) of a str: blanks stripped, optional sign, decimal digits
ParseInt(s) == ParseIntStripped(Strip(s))

RECURSIVE Pow10(_)
Pow10(n) == IF n = 0 THEN 1 ELSE 10 * Pow10(n - 1)

\* the float sign * ip.fp of two strings of digits
DecimalValue(sign, ip, fp) ==
    Frac(sign * (DigitsValue(ip) * Pow10(Len(fp)) + DigitsValue(fp)), Pow10(Len(fp)))

ParseDecimal(sign, ip, fp) ==
    IF /\ ip = "" \/ IsDigitString(ip)
       /\ fp = "" \/ IsDigitString(fp)
       /\ ip # "" \/ fp # ""
    THEN Ok(DecimalValue(sign, Replace(ip, "_", ""), Replace(fp, "_", "")))
    ELSE Raise("ValueError")

SplitDecimal(sign, u, dot) ==
    IF dot = 0 THEN ParseDecimal(sign, u, "")
    ELSE ParseDecimal(sign, SubSeq(u, 1, dot - 1), SubSeq(u, dot + 1, Len(u)))

ParseFloatStripped(t) == SplitDecimal(SignOf(t), Unsigned(t), IndexOf(Unsigned(t), ".", 1))

\* float(s) of a str: blanks stripped, optional sign, digits with an optional
\* fraction (exponents, inf and nan are not modelled: no input uses them)
ParseFloat(s) == ParseFloatStripped(Strip(s))

MinorGroups(s, a, b, c) ==
    IF /\ a > 1 /\ CharAt(s, a) = "."
       /\ b > a + 1 /\ CharAt(s, b) = "_"
       /\ c > b + 1
    THEN [kind |-> "Match",
          groups |-> <<SubSeq(s, 1, a - 1), SubSeq(s, a + 1, b - 1),
                       SubSeq(s, b + 1, c - 1)>>]
    ELSE None

MinorSecond(s, a, b) == MinorGroups(s, a, b, DigitsEnd(s, b + 1))

MinorFirst(s, a) == MinorSecond(s, a, DigitsEnd(s, a + 1))

\* MINOR_REGEX = re.compile(r'(\d+)\.(\d+)_(\d+)'), MINOR_REGEX.match(s):
\* the three groups when a prefix of s matches, None otherwise
MINOR_REGEX_match(s) == MinorFirst(s, DigitsEnd(s, 1))

(***************************************************************************)
(* xml.etree.ElementTree (standard library): elements, find, findall       *)
(***************************************************************************)
NoAttrib == [k \in {} |-> ""]

Element(tag, attrib, children) ==
    [kind |-> "Element", tag |-> tag, attrib |-> attrib, children |-> children]

IsNone(x) == x.kind = "None"

\* the index of the first child from i on with that tag, 0 when there is none
RECURSIVE ChildIndex(_, _, _)
ChildIndex(children, tag, i) ==
    IF i > Len(children) THEN 0
    ELSE IF children[i].tag = tag THEN i
    ELSE ChildIndex(children, tag, i + 1)

ChildAt(children, i) == IF i = 0 THEN None ELSE children[i]

\* Element.find(tag): the first child with that tag, or None
find(node, tag) == ChildAt(node.children, ChildIndex(node.children, tag, 1))

\* Element.findall(tag): the children with that tag, in document order
findall(node, tag) == SelectSeq(node.children, LAMBDA c : c.tag = tag)

\* a.find(t1).find(t2)...: AttributeError as soon as a find is applied to None;
\* the last find may itself return None
RECURSIVE FindChain(_, _)
FindChain(node, tags) ==
    IF tags = <<>> THEN Ok(node)
    ELSE IF IsNone(node) THEN Raise("AttributeError")
    ELSE FindChain(find(node, Head(tags)), Tail(tags))

\* node.attrib[key] where node may be None
Attrib(node, key) ==
    IF IsNone(node) THEN Raise("AttributeError")
    ELSE IF key \in DOMAIN node.attrib THEN Ok(node.attrib[key])
    ELSE Raise("KeyError")

\* a.find(t1)...find(tn).attrib[key]
ChainAttrib(node, tags, key) ==
    Bind(FindChain(node, tags), LAMBDA found : Attrib(found, key))

\* a.find(t1)...find(tn) used as an object: exc when it is None
ChainElement(node, tags, exc) ==
    Bind(FindChain(node, tags),
         LAMBDA found : IF IsNone(found) THEN Raise(exc) ELSE Ok(found))

\* bool(element): an element with no children is falsy, as None is
Truthy(node) == ~IsNone(node) /\ Len(node.children) > 0

(***************************************************************************)
(* AbletonParser.__parse_and_verify_version                                *)
(***************************************************************************)
VersionKeys == {"MajorVersion", "MinorVersion"}

\* every key of the root is kept
MetadataAll(attrib) == attrib

\* the keys of the root other than the version keys, with their values
Metadata(attrib) == [key \in (DOMAIN attrib) \ VersionKeys |-> attrib[key]]

\* the second and third group change places
VersionDataSwapped(major, match, metadata) ==
    IF IsNone(match) THEN Raise("AttributeError")
    ELSE Ok([major |-> major,
             minorA |-> DigitsValue(match.groups[1]),
             minorB |-> DigitsValue(match.groups[3]),
             minorC |-> DigitsValue(match.groups[2]),
             metadata |-> metadata])

VersionData(major, match, metadata) ==
    IF IsNone(match) THEN Raise("AttributeError")
    ELSE Ok([major |-> major,
             minorA |-> DigitsValue(match.groups[1]),
             minorB |-> DigitsValue(match.groups[2]),
             minorC |-> DigitsValue(match.groups[3]),
             metadata |-> metadata])

parse_and_verify_version(tree) ==
    Bind(Attrib(tree, "MajorVersion"), LAMBDA maj :
    Bind(ParseInt(maj), LAMBDA major :
    Bind(Attrib(tree, "MinorVersion"), LAMBDA min :
    VersionData(major, MINOR_REGEX_match(min), Metadata(tree.attrib)))))

(***************************************************************************)
(* AbletonParser.AUTOMATION_SHORTCUTS and its expansion over track types   *)
(***************************************************************************)
\* the index of key in a dict kept as its sequence of <<key, value>> items,
\* 0 when it is not a key
RECURSIVE DictIndex(_, _, _)
DictIndex(d, key, i) ==
    IF i > Len(d) THEN 0
    ELSE IF d[i][1] = key THEN i
    ELSE DictIndex(d, key, i + 1)

DictSetAt(d, key, value, i) ==
    IF i = 0 THEN Append(d, <<key, value>>)
    ELSE SubSeq(d, 1, i - 1) \o << <<key, value>> >> \o SubSeq(d, i + 1, Len(d))

\* d[key] = value: an existing key keeps its place, a new key goes last
DictSet(d, key, value) == DictSetAt(d, key, value, DictIndex(d, key, 1))

SHORTCUT_TEMPLATES ==
    << <<"${track_type}.DeviceChain.Mixer.Volume", "Volume">>,
       <<"${track_type}.DeviceChain.Mixer.On", "On">>,
       <<"${track_type}.DeviceChain.Mixer.Pan", "Pan">>,
       <<"${track_type}.DeviceChain.Mixer.Sends.TrackSendHolder.Send", "Send">>,
       <<"${track_type}.DeviceChain.Mixer.SplitStereoPanL", "SplitStereoPanL">>,
       <<"${track_type}.DeviceChain.Mixer.SplitStereoPanR", "SplitStereoPanR">>,
       <<"${track_type}.DeviceChain.DeviceChain.Devices", "Plugins">>,
       <<"MainTrack.DeviceChain.Mixer.Tempo", "Tempo">>,
       <<"MainTrack.DeviceChain.Mixer.TimeSignature", "TimeSignature">> >>

SHORTCUT_TRACK_TYPES ==
    <<"AudioTrack", "MidiTrack", "GroupTrack", "ReturnTrack", "MainTrack">>

\* for shortcut, target in deepcopy(d).items(): d[shortcut.replace(...)] = target
\* (the test on Len evaluates the dict of one iteration before the next begins)
RECURSIVE ExpandShortcuts(_, _, _)
RECURSIVE ExpandShortcutsFrom(_, _, _)
ExpandShortcuts(d, items, track_type) ==
    IF items = <<>> THEN d
    ELSE ExpandShortcutsFrom(
             DictSet(d, Replace(Head(items)[1], "${track_type}", track_type),
                     Head(items)[2]),
             Tail(items), track_type)

ExpandShortcutsFrom(d, items, track_type) ==
    IF Len(d) > 0 THEN ExpandShortcuts(d, items, track_type) ELSE d

RECURSIVE ExpandTrackTypes(_, _)
RECURSIVE ExpandTrackTypesFrom(_, _)
ExpandTrackTypes(d, types) ==
    IF types = <<>> THEN d
    ELSE ExpandTrackTypesFrom(ExpandShortcuts(d, d, Head(types)), Tail(types))

ExpandTrackTypesFrom(d, types) ==
    IF Len(d) > 0 THEN ExpandTrackTypes(d, types) ELSE d

AUTOMATION_SHORTCUTS == ExpandTrackTypes(SHORTCUT_TEMPLATES, SHORTCUT_TRACK_TYPES)

(***************************************************************************)
(* AbletonParser.__resolve_automation_target                               *)
(***************************************************************************)
WalkResult(exc, found, path) == [exc |-> exc, found |-> found, path |-> path]

\* walk(path, node): found with the path to the first matching AutomationTarget
\* in pre-order; a result that is None or the empty list is passed over by
\* the caller's "if result"
RECURSIVE walk(_, _, _)
RECURSIVE WalkTarget(_, _, _, _)
RECURSIVE walkChildren(_, _, _, _)
RECURSIVE WalkNext(_, _, _, _, _)
walk(path, node, id) ==
    IF node.tag = "AutomationTarget"
    THEN WalkTarget(path, node, id,
                    Bind(Attrib(node, "Id"), LAMBDA raw : ParseInt(raw)))
    ELSE walkChildren(Append(path, node.tag), node.children, 1, id)

\* if int(node.attrib['Id']) == id: return path
WalkTarget(path, node, id, nid) ==
    IF ~nid.ok THEN WalkResult(nid.exc, FALSE, <<>>)
    ELSE IF nid.val = id THEN WalkResult("", TRUE, path)
    ELSE walkChildren(Append(path, node.tag), node.children, 1, id)

\* for child in node: result = walk(path + [node.tag], child)
walkChildren(path, children, i, id) ==
    IF i > Len(children) THEN WalkResult("", FALSE, <<>>)
    ELSE WalkNext(path, children, i, id, walk(path, children[i], id))

\* a later match is preferred to an earlier one
PreferLater(result, rest) == IF rest.exc # "" \/ rest.found THEN rest ELSE result

WalkNextLast(path, children, i, id, result) ==
    IF result.exc # "" THEN result
    ELSE PreferLater(result, walkChildren(path, children, i + 1, id))

\* if result: return result
WalkNext(path, children, i, id, result) ==
    IF result.exc # "" THEN result
    ELSE IF result.found /\ result.path # <<>> THEN result
    ELSE walkChildren(path, children, i + 1, id)

\* for shortcut, target in AUTOMATION_SHORTCUTS.items(): path = path.replace(...)
RECURSIVE ApplyShortcuts(_, _)
RECURSIVE ApplyShortcutsFrom(_, _)
ApplyShortcuts(path, items) ==
    IF items = <<>> THEN path
    ELSE ApplyShortcutsFrom(Replace(path, Head(items)[1], Head(items)[2]), Tail(items))

ApplyShortcutsFrom(path, items) ==
    IF Len(path) >= 0 THEN ApplyShortcuts(path, items) ELSE path

\* a walk that found nothing is taken for the empty path
ResolvedAsFound(w) ==
    IF w.exc # "" THEN Raise(w.exc)
    ELSE Ok([target |-> <<ApplyShortcuts(Join(w.path), AUTOMATION_SHORTCUTS)>>,
             log |-> <<>>])

\* The value is [target, log]: target is <<>> for None and <<s>> for the str s;
\* log holds the error reported when nothing was found.
Resolved(w) ==
    IF w.exc # "" THEN Raise(w.exc)
    ELSE IF ~w.found \/ w.path = <<>>
    THEN Ok([target |-> <<>>,
             log |-> <<"error: Failed to resolve automation target">>])
    ELSE Ok([target |-> <<ApplyShortcuts(Join(w.path), AUTOMATION_SHORTCUTS)>>,
             log |-> <<>>])

resolve_automation_target(id, track) == Resolved(walk(<<>>, track, id))

\* the resolver drops the children of the track it has searched
TreeAfterWalkEmptied(track) == Element(track.tag, track.attrib, <<>>)

\* the track element after a resolution: walk reads node.tag, node.attrib and
\* the children, and assigns to none of them
TreeAfterWalk(track) == track

(***************************************************************************)
(* AbletonParser.__get_track_automation_envelopes                          *)
(***************************************************************************)
\* the automation is built without a parent
AbletonAutomationOrphan(oid, name, color, parent, target, events) ==
    [oid |-> oid, name |-> name, color |-> color, parent |-> None, target |-> target,
     events |-> events]

AbletonAutomation(oid, name, color, parent, target, events) ==
    [oid |-> oid, name |-> name, color |-> color, parent |-> parent, target |-> target,
     events |-> events]

\* 'false' counts as 1 as well
EventValueAlwaysOne(val) ==
    IF val = "true" \/ val = "false" THEN Ok(FInt(1)) ELSE ParseFloat(val)

\* the value of an event: 1 / 0 for 'true' / 'false', else float(val)
EventValue(val) ==
    IF val = "true" \/ val = "false"
    THEN Ok(FInt(IF val = "true" THEN 1 ELSE 0))
    ELSE ParseFloat(val)

\* one event of an envelope: the point (time, value)
ParseEvent(event) ==
    Bind(Attrib(event, "Time"), LAMBDA t :
    Bind(ParseFloat(t), LAMBDA time :
    Bind(Attrib(event, "Value"), LAMBDA val :
    Bind(EventValue(val), LAMBDA value :
    Ok(<<time, value>>)))))

\* for event in events: points += [ (time, value) ]
RECURSIVE ParseEvents(_, _, _)
ParseEvents(events, i, points) ==
    IF i > Len(events) THEN Ok(points)
    ELSE Bind(ParseEvent(events[i]),
              LAMBDA point : ParseEvents(events, i + 1, Append(points, point)))

\* the body of the loop over the envelopes: the value is [automation, log];
\* heap is the oid the automation gets
ParseEnvelope(parent, envelope, track, heap) ==
    Bind(ChainAttrib(envelope, <<"EnvelopeTarget", "PointeeId">>, "Value"), LAMBDA raw :
    Bind(ParseInt(raw), LAMBDA id :
    Bind(resolve_automation_target(id, track), LAMBDA target :
    Bind(ChainElement(envelope, <<"Automation", "Events">>, "TypeError"), LAMBDA events :
    Bind(ParseEvents(events.children, 1, <<>>), LAMBDA points :
    Ok([automation |-> AbletonAutomation(heap, "unknown", "DEFAULT", parent,
                                         target.target, points),
        log |-> target.log]))))))

RECURSIVE ParseEnvelopes(_, _, _, _, _, _, _)
ParseEnvelopes(parent, envelopes, track, i, automations, log, heap) ==
    IF i > Len(envelopes) THEN Ok([automations |-> automations, log |-> log])
    ELSE Bind(ParseEnvelope(parent, envelopes[i], track, heap),
              LAMBDA one : ParseEnvelopes(parent, envelopes, track, i + 1,
                                          Append(automations, one.automation),
                                          log \o one.log, heap + 1))

\* the value is [automations, log]; parent is the track object the
\* automations belong to, heap the oid of the next object created
get_track_automation_envelopes(parent, track, heap) ==
    Bind(ChainElement(track, <<"AutomationEnvelopes", "Envelopes">>, "TypeError"),
         LAMBDA envelopes :
             ParseEnvelopes(parent, envelopes.children, track, 1, <<>>, <<>>, heap))

(***************************************************************************)
(* AbletonParser.__get_track_color, __get_track_name and the track parsers *)
(***************************************************************************)
get_track_color(track) ==
    Bind(ChainAttrib(track, <<"Color">>, "Value"), LAMBDA raw :
    Bind(ParseInt(raw), LAMBDA color :
    Ok("DEFAULT")))

get_track_name(track) == ChainAttrib(track, <<"Name", "EffectiveName">>, "Value")

AbletonClip(oid, cls, name, color, parent, start, end, disabled) ==
    [oid |-> oid, cls |-> cls, name |-> name, color |-> color, parent |-> parent,
     start |-> start, end |-> end, disabled |-> disabled]

AbletonTrack(oid, cls, name, color, parent, clips, automations) ==
    [oid |-> oid, cls |-> cls, name |-> name, color |-> color, parent |-> parent,
     clips |-> clips, automations |-> automations]

\* the body of the loop over the clip elements of an audio or midi track;
\* track is the track object created before the loop, heap the oid of the clip
ParseClip(cls, clip, track, heap) ==
    Bind(ChainAttrib(clip, <<"CurrentStart">>, "Value"), LAMBDA s :
    Bind(ParseFloat(s), LAMBDA start :
    Bind(ChainAttrib(clip, <<"CurrentEnd">>, "Value"), LAMBDA e :
    Bind(ParseFloat(e), LAMBDA end :
    Bind(ChainAttrib(clip, <<"Name">>, "Value"), LAMBDA name :
    Bind(get_track_color(clip), LAMBDA color :
    Bind(ChainAttrib(clip, <<"Disabled">>, "Value"), LAMBDA disabled :
    Ok(AbletonClip(heap, cls, name, color, track, start, end, disabled = "true")))))))))

RECURSIVE ParseClips(_, _, _, _, _, _)
ParseClips(cls, elements, i, clips, track, heap) ==
    IF i > Len(elements) THEN Ok(clips)
    ELSE Bind(ParseClip(cls, elements[i], track, heap),
              LAMBDA clip : ParseClips(cls, elements, i + 1, Append(clips, clip),
                                       track, heap + 1))

\* a track with clips: name, color, the clips under the sequencer chain, then
\* the automation envelopes; the value is [track, log].  The track object is
\* created first and gets the oid heap; its clips and automations follow.
ParseClipTrack(cls, clipCls, holder, clipTag, parent, tree, heap) ==
    Bind(get_track_name(tree), LAMBDA track_name :
    Bind(get_track_color(tree), LAMBDA track_color :
    Bind(ChainElement(tree, <<"DeviceChain", "MainSequencer", holder,
                              "ArrangerAutomation", "Events">>, "AttributeError"),
         LAMBDA events :
    Bind(ParseClips(clipCls, findall(events, clipTag), 1, <<>>, Ref(heap), heap + 1),
         LAMBDA clips :
    Bind(get_track_automation_envelopes(Ref(heap), tree, heap + 1 + Len(clips)),
         LAMBDA automations :
    Ok([track |-> AbletonTrack(heap, cls, track_name, track_color, parent, clips,
                               automations.automations),
        log |-> automations.log]))))))

parse_audio_track(parent, tree, heap) ==
    ParseClipTrack("AbletonAudioTrack", "AbletonAudioClip", "Sample", "AudioClip",
                   parent, tree, heap)

parse_midi_track(parent, tree, heap) ==
    ParseClipTrack("AbletonMidiTrack", "AbletonMidiClip", "ClipTimeable", "MidiClip",
                   parent, tree, heap)

parse_simple_track(cls, parent, tree, heap) ==
    Bind(get_track_name(tree), LAMBDA track_name :
    Bind(get_track_color(tree), LAMBDA track_color :
    Bind(get_track_automation_envelopes(Ref(heap), tree, heap + 1), LAMBDA automations :
    Ok([track |-> AbletonTrack(heap, cls, track_name, track_color, parent, <<>>,
                               automations.automations),
        log |-> automations.log]))))

(***************************************************************************)
(* AbletonParser.__parse_tracks                                            *)
(***************************************************************************)
\* the dispatch on the tag of one element under Tracks
ParseTrackElement(parent, track, heap) ==
    IF track.tag = "AudioTrack" THEN parse_audio_track(parent, track, heap)
    ELSE IF track.tag = "MidiTrack" THEN parse_midi_track(parent, track, heap)
    ELSE IF track.tag = "GroupTrack"
    THEN parse_simple_track("AbletonGroupTrack", parent, track, heap)
    ELSE parse_simple_track("AbletonReturnTrack", parent, track, heap)

\* the objects a track parser has created: the track, its clips and automations
Created(track) == 1 + Len(track.clips) + Len(track.automations)

TrackTags == {"AudioTrack", "MidiTrack", "GroupTrack", "ReturnTrack"}

\* for track in xml_tracks: ...; the value is [tracks, log]
RECURSIVE ParseTrackElements(_, _, _, _, _, _)
ParseTrackElements(parent, xml_tracks, i, tracks, log, heap) ==
    IF i > Len(xml_tracks) THEN Ok([tracks |-> tracks, log |-> log, heap |-> heap])
    ELSE IF xml_tracks[i].tag \notin TrackTags
    THEN ParseTrackElements(parent, xml_tracks, i + 1, tracks,
                            Append(log, "warning: Unknown track type"), heap)
    ELSE Bind(ParseTrackElement(parent, xml_tracks[i], heap),
              LAMBDA one : ParseTrackElements(parent, xml_tracks, i + 1,
                                              Append(tracks, one.track),
                                              log \o one.log,
                                              heap + Created(one.track)))

\* master_track = ...find('MainTrack'); if not master_track: ...find('MasterTrack')
FindMasterTrack(tree) ==
    Bind(FindChain(tree, <<"LiveSet", "MainTrack">>), LAMBDA main :
    IF Truthy(main) THEN Ok(main) ELSE FindChain(tree, <<"LiveSet", "MasterTrack">>))

\* if not master_track: warning, else tracks += [the master track]
WithMasterTrack(parent, listed, master_track) ==
    IF ~Truthy(master_track)
    THEN Ok([tracks |-> listed.tracks,
             log |-> Append(listed.log, "warning: Main track not found")])
    ELSE Bind(parse_simple_track("AbletonMasterTrack", parent, master_track, listed.heap),
              LAMBDA master :
         Ok([tracks |-> Append(listed.tracks, master.track),
             log |-> listed.log \o master.log]))

\* the value is [tracks, log]; parent is the project object, heap the oid of
\* the next object created
parse_tracks(parent, tree, heap) ==
    Bind(ChainElement(tree, <<"LiveSet", "Tracks">>, "AttributeError"), LAMBDA holder :
    Bind(ParseTrackElements(parent, holder.children, 1, <<>>, <<>>, heap), LAMBDA listed :
    Bind(FindMasterTrack(tree), LAMBDA master_track :
    WithMasterTrack(parent, listed, master_track))))

(***************************************************************************)
(* AbletonAutomation.get_value_at                                          *)
(***************************************************************************)
\* the first i in range(len(events) - 1) with
\* events[i][0] <= time <= events[i + 1][0], 0 when the loop finds none
RECURSIVE Bracket(_, _, _)
Bracket(events, time, i) ==
    IF i >= Len(events) THEN 0
    ELSE IF FLeq(events[i][1], time) /\ FLeq(time, events[i + 1][1]) THEN i
    ELSE Bracket(events, time, i + 1)

\* the value of the earlier event is held up to the later one
InterpolateHoldsLeft(t1, v1, t2, v2, time) ==
    IF FIsZero(FSub(t2, t1)) THEN Raise("ZeroDivisionError") ELSE Ok(v1)

\* v1 + (v2 - v1) * (time - t1) / (t2 - t1)
Interpolate(t1, v1, t2, v2, time) ==
    IF FIsZero(FSub(t2, t1)) THEN Raise("ZeroDivisionError")
    ELSE Ok(FAdd(v1, FDiv(FMul(FSub(v2, v1), FSub(time, t1)), FSub(t2, t1))))

\* without a bracketing pair the value of the first event is returned
ValueAtBracketFirst(events, time, i) ==
    IF i = 0 THEN Ok(events[1][2])
    ELSE Interpolate(events[i][1], events[i][2],
                     events[i + 1][1], events[i + 1][2], time)

ValueAtBracket(events, time, i) ==
    IF i = 0 THEN Ok(events[Len(events)][2])
    ELSE Interpolate(events[i][1], events[i][2],
                     events[i + 1][1], events[i + 1][2], time)

get_value_at(events, time) ==
    IF events = <<>> THEN Ok(FInt(0))
    ELSE ValueAtBracket(events, time, Bracket(events, time, 1))

(***************************************************************************)
(* AbletonTrack.get_duration, AbletonProject                               *)
(***************************************************************************)
FMax(a, b) == IF FLt(a, b) THEN b ELSE a

\* the maximum over the clips that are not disabled
RECURSIVE MaxEndEnabled(_, _, _)
MaxEndEnabled(clips, i, best) ==
    IF i > Len(clips) THEN best
    ELSE IF clips[i].disabled THEN MaxEndEnabled(clips, i + 1, best)
    ELSE MaxEndEnabled(clips, i + 1, FMax(best, clips[i].end))

\* max(clip.get_end() for clip in clips)
RECURSIVE MaxEnd(_, _, _)
MaxEnd(clips, i, best) ==
    IF i > Len(clips) THEN best
    ELSE MaxEnd(clips, i + 1, FMax(best, clips[i].end))

get_duration(track) ==
    IF track.clips = <<>> THEN FInt(0)
    ELSE MaxEnd(track.clips, 2, track.clips[1].end)

\* the duration of the first track
MaxDurationFirst(trks, i, best) == best

\* max([track.get_duration() for track in tracks])
RECURSIVE MaxDuration(_, _, _)
MaxDuration(trks, i, best) ==
    IF i > Len(trks) THEN best
    ELSE MaxDuration(trks, i + 1, FMax(best, get_duration(trks[i])))

calculate_duration(trks) ==
    IF trks = <<>> THEN FInt(0)
    ELSE MaxDuration(trks, 2, get_duration(trks[1]))

TIME_SLICE == Frac(1, 1000)

ProjectStart == FInt(0)

AbletonProject(major_version, minorA, minorB, minorC, metadata, hash) ==
    [kind |-> "Project", oid |-> 0, parent |-> None,
     major_version |-> major_version, minorA |-> minorA,
     minorB |-> minorB, minorC |-> minorC, metadata |-> metadata,
     tracks |-> <<>>, hash |-> hash, duration |-> FInt(0),
     tempo_cache |-> <<>>, base_tempo |-> FInt(0)]

\* next((track for track in tracks if isinstance(track, AbletonMasterTrack)), None)
RECURSIVE FirstMaster(_, _)
FirstMaster(trks, i) ==
    IF i > Len(trks) THEN 0
    ELSE IF trks[i].cls = "AbletonMasterTrack" THEN i
    ELSE FirstMaster(trks, i + 1)

\* next((automation for automation in ... if automation.get_target() == "Tempo"), None)
RECURSIVE FirstTempo(_, _)
FirstTempo(automations, i) ==
    IF i > Len(automations) THEN 0
    ELSE IF automations[i].target = <<"Tempo">> THEN i
    ELSE FirstTempo(automations, i + 1)

\* [tempo_automation.get_value_at(i) for i in range(n)]
RECURSIVE SampleTempo(_, _, _, _)
SampleTempo(events, n, i, cache) ==
    IF i >= n THEN Ok(cache)
    ELSE Bind(get_value_at(events, FInt(i)),
              LAMBDA value : SampleTempo(events, n, i + 1, Append(cache, value)))

Built(p, log) == Ok([project |-> p, log |-> log])

CacheTempo(p, events) ==
    Bind(get_value_at(events, FInt(0)), LAMBDA base :
    Bind(SampleTempo(events, FTrunc(FDiv(p.duration, TIME_SLICE)), 0, <<>>),
         LAMBDA cache :
    Built([p EXCEPT !.base_tempo = base, !.tempo_cache = cache], <<>>)))

CacheMaster(p, automations, j) ==
    IF j = 0 THEN Built(p, <<"warning: Tempo automation not found">>)
    ELSE CacheTempo(p, automations[j].events)

CacheTracks(p, i) ==
    IF i = 0 THEN Built(p, <<"warning: Master track not found">>)
    ELSE CacheMaster(p, p.tracks[i].automations,
                     FirstTempo(p.tracks[i].automations, 1))

\* the value is [project, log]
build_tempo_cache(p) == CacheTracks(p, FirstMaster(p.tracks, 1))

set_tracks(p, trks) ==
    build_tempo_cache([p EXCEPT !.tracks = trks,
                                !.duration = calculate_duration(trks)])

\* xs[i] of a Python list, i counted from 0, a negative i from the end
ListIndex(xs, i) ==
    IF 0 <= i /\ i < Len(xs) THEN Ok(xs[i + 1])
    ELSE IF i < 0 /\ -i <= Len(xs) THEN Ok(xs[Len(xs) + i + 1])
    ELSE Raise("IndexError")

get_tempo(p, at) ==
    IF at = ProjectStart THEN Ok(p.base_tempo)
    ELSE ListIndex(p.tempo_cache, FTrunc(FDiv(at, TIME_SLICE)))

(***************************************************************************)
(* Documents.  The elements follow the structure the parser reads; a       *)
(* document is the prolog followed by one byte naming the attributes of    *)
(* the root, one byte naming what follows Tracks in the LiveSet, and one   *)
(* byte for each element under Tracks.                                     *)
(***************************************************************************)
Val(tag, value) == Element(tag, [Value |-> value], <<>>)

NameEl(name) == Element("Name", NoAttrib, <<Val("EffectiveName", name)>>)

ClipEl(tag, name, start, end, disabled) ==
    Element(tag, NoAttrib,
            <<Val("CurrentStart", start), Val("CurrentEnd", end), Val("Name", name),
              Val("Color", "1"), Val("Disabled", disabled)>>)

FloatEvent(time, value) == Element("FloatEvent", [Time |-> time, Value |-> value], <<>>)

BoolEvent(time, value) == Element("BoolEvent", [Time |-> time, Value |-> value], <<>>)

EnvelopeEl(pointee, events) ==
    Element("AutomationEnvelope", NoAttrib,
            <<Element("EnvelopeTarget", NoAttrib, <<Val("PointeeId", pointee)>>),
              Element("Automation", NoAttrib, <<Element("Events", NoAttrib, events)>>)>>)

EnvelopesEl(envelopes) ==
    Element("AutomationEnvelopes", NoAttrib, <<Element("Envelopes", NoAttrib, envelopes)>>)

SequencerEl(holder, clips) ==
    Element("MainSequencer", NoAttrib,
            <<Element(holder, NoAttrib,
                      <<Element("ArrangerAutomation", NoAttrib,
                                <<Element("Events", NoAttrib, clips)>>)>>)>>)

ParamEl(tag, id) == Element(tag, NoAttrib, <<Element("AutomationTarget", [Id |-> id], <<>>)>>)

MixerEl(params) == Element("Mixer", NoAttrib, params)

DeviceChainEl(children) == Element("DeviceChain", NoAttrib, children)

TrackEl(tag, name, chain, envelopes) ==
    Element(tag, NoAttrib, name \o <<Val("Color", "3")>> \o chain \o envelopes)

RootAttribs ==
    << [MajorVersion |-> "5", MinorVersion |-> "10.0_377",
        Creator |-> "Ableton Live 10.1.7"],
       [MinorVersion |-> "10.0_377", Creator |-> "Ableton Live 10.1.7"],
       [MajorVersion |-> "5", Creator |-> "Ableton Live 10.1.7"],
       [MajorVersion |-> "5", MinorVersion |-> "abc"],
       [MajorVersion |-> "five", MinorVersion |-> "10.0_377"],
       [MajorVersion |-> "4", MinorVersion |-> "9.7_2beta",
        Revision |-> "f7eb4c8e", SchemaChangeCount |-> "3"] >>

TrackElements ==
    << TrackEl("AudioTrack", <<NameEl("Drums")>>,
               <<DeviceChainEl(<<MixerEl(<<ParamEl("Volume", "11")>>),
                                 SequencerEl("Sample",
                                     <<ClipEl("AudioClip", "kick", "0", "0.002", "false")>>)>>)>>,
               <<EnvelopesEl(<<>>)>>),
       TrackEl("AudioTrack", <<NameEl("Bass")>>,
               <<DeviceChainEl(<<MixerEl(<<ParamEl("On", "20"), ParamEl("Volume", "21")>>),
                                 SequencerEl("Sample",
                                     <<ClipEl("AudioClip", "a", "0", "0.001", "false"),
                                       ClipEl("AudioClip", "b", "0.001", "0.0035", "true")>>)>>)>>,
               <<EnvelopesEl(<<EnvelopeEl("21", <<FloatEvent("-63072000", "0.5"),
                                                  FloatEvent("1", "1")>>)>>)>>),
       TrackEl("MidiTrack", <<NameEl("Keys")>>,
               <<DeviceChainEl(<<MixerEl(<<ParamEl("On", "31")>>),
                                 SequencerEl("ClipTimeable",
                                     <<ClipEl("MidiClip", "chords", "0.0005", "0.0025", "false")>>)>>)>>,
               <<EnvelopesEl(<<EnvelopeEl("31", <<BoolEvent("0", "true"),
                                                  BoolEvent("2", "false")>>)>>)>>),
       TrackEl("GroupTrack", <<NameEl("Bus")>>,
               <<DeviceChainEl(<<MixerEl(<<ParamEl("Pan", "41")>>)>>)>>,
               <<EnvelopesEl(<<EnvelopeEl("99", <<FloatEvent("0", "0"),
                                                  FloatEvent("0.001", "0.25")>>),
                               EnvelopeEl("41", <<FloatEvent("0", "0.5")>>)>>)>>),
       TrackEl("ReturnTrack", <<NameEl("Reverb")>>,
               <<DeviceChainEl(<<MixerEl(<<ParamEl("Volume", "51")>>)>>)>>,
               <<EnvelopesEl(<<EnvelopeEl("51", <<FloatEvent("2", "0.75"),
                                                  FloatEvent("1", "0.25"),
                                                  BoolEvent("1", "true")>>)>>)>>),
       TrackEl("PreHearTrack", <<NameEl("Cue")>>, <<>>, <<EnvelopesEl(<<>>)>>),
       TrackEl("AudioTrack", <<NameEl("Broken")>>, <<>>, <<EnvelopesEl(<<>>)>>),
       TrackEl("MidiTrack", <<>>,
               <<DeviceChainEl(<<SequencerEl("ClipTimeable", <<>>)>>)>>,
               <<EnvelopesEl(<<>>)>>),
       TrackEl("ReturnTrack", <<NameEl("Delay")>>, <<>>, <<>>),
       TrackEl("AudioTrack", <<NameEl("Lead")>>,
               <<DeviceChainEl(<<MixerEl(<<>>),
                                 SequencerEl("Sample",
                                     <<ClipEl("AudioClip", "take", "0", "4", "false")>>)>>)>>,
               <<EnvelopesEl(<<>>)>>) >>

MasterEl(tag, name, params, envelopes) ==
    TrackEl(tag, name, <<DeviceChainEl(<<MixerEl(params)>>)>>,
            <<EnvelopesEl(envelopes)>>)

\* what follows Tracks in the LiveSet: nothing, or a main / master track
LiveSetTails ==
    << <<>>,
       <<MasterEl("MainTrack", <<NameEl("Main")>>, <<ParamEl("Tempo", "8")>>,
                  <<EnvelopeEl("8", <<FloatEvent("0", "100"), FloatEvent("1", "200")>>)>>)>>,
       <<MasterEl("MainTrack", <<NameEl("Main")>>,
                  <<ParamEl("Volume", "7"), ParamEl("Tempo", "8")>>,
                  <<EnvelopeEl("7", <<FloatEvent("0", "1")>>),
                    EnvelopeEl("8", <<FloatEvent("0", "120"),
                                      FloatEvent("0.002", "124")>>)>>)>>,
       <<MasterEl("MainTrack", <<NameEl("Main")>>, <<ParamEl("Tempo", "8")>>, <<>>)>>,
       <<MasterEl("MasterTrack", <<NameEl("Master")>>, <<ParamEl("Tempo", "8")>>,
                  <<EnvelopeEl("8", <<FloatEvent("0", "90")>>)>>)>>,
       <<Element("MainTrack", NoAttrib, <<>>)>>,
       <<MasterEl("MainTrack", <<>>, <<ParamEl("Tempo", "8")>>, <<>>)>>,
       <<MasterEl("MainTrack", <<NameEl("Main")>>, <<ParamEl("Tempo", "8")>>,
                  <<EnvelopeEl("8", <<FloatEvent("0", "100"), FloatEvent("0", "200")>>)>>)>> >>

Body(content) == SubSeq(content, Len(XML_PROLOG) + 1, Len(content))

WellFormed(body) ==
    /\ Len(body) >= 2
    /\ body[1] \in 1..Len(RootAttribs)
    /\ body[2] \in 1..Len(LiveSetTails)
    /\ \A i \in 3..Len(body) : body[i] \in 1..Len(TrackElements)

Document(body) ==
    Element("Ableton", RootAttribs[body[1]],
            <<Element("LiveSet", NoAttrib,
                      <<Element("Tracks", NoAttrib,
                                [i \in 1..(Len(body) - 2) |-> TrackElements[body[i + 2]]])>>
                      \o LiveSetTails[body[2]])>>)

\* ET.fromstring(content): the root element, or ParseError on malformed markup
Parsed(body) == IF WellFormed(body) THEN Ok(Document(body)) ELSE Raise("ParseError")

FromString(content) == Parsed(Body(content))

(***************************************************************************)
(* Inputs                                                                  *)
(***************************************************************************)
MaxTracks == 2

MaxEvents == 3

MaxClips == 3

BoundedSeq(S, n) == UNION {[1..k -> S] : k \in 0..n}

\* the last track element, four beats long, is kept for MinimalDocs
TrackLists == BoundedSeq(1..(Len(TrackElements) - 1), MaxTracks)

\* documents with a good root: every tail with every list of tracks
TrackDocs ==
    {XML_PROLOG \o <<1, t>> \o l : t \in 1..Len(LiveSetTails), l \in TrackLists}

\* one audio track with one clip from 0 to 4, alone and beside a shorter
\* track, and no main track
MinimalDocument == XML_PROLOG \o <<1, 1, Len(TrackElements)>>

MinimalDocs ==
    {MinimalDocument, MinimalDocument \o <<1>>,
     XML_PROLOG \o <<1, 1, 1, Len(TrackElements)>>}

\* documents with each of the roots over the same body
VersionDocs == {XML_PROLOG \o <<r, 2, 1>> : r \in 1..Len(RootAttribs)}

\* the prolog followed by something that is not well formed
MalformedDocs == {XML_PROLOG, XML_PROLOG \o <<1>>, XML_PROLOG \o <<1, 2, 0>>,
                  XML_PROLOG \o <<0, 1, 1>>}

OtherBytes ==
    {<<>>, <<31>>, <<31, 139>>, <<139, 31>>, <<60>>,
     <<114, 97, 110, 100, 111, 109>>,
     SubSeq(XML_PROLOG, 1, Len(XML_PROLOG) - 1),
     [XML_PROLOG EXCEPT ![31] = 117],
     <<32>> \o XML_PROLOG}

PlainInputs ==
    TrackDocs \union MinimalDocs \union VersionDocs \union MalformedDocs \union OtherBytes

CompressedInputs ==
    {gzip_compress(d) : d \in {p \in PlainInputs : Len(p) <= Len(XML_PROLOG) + 3}}

\* the gzip magic over a damaged frame
CorruptInputs ==
    {GZIP_MAGIC \o <<120, 120, 120, 120>>,
     GZIP_MAGIC \o <<8>> \o XML_PROLOG \o <<1, 2, 1, 0, 0>>,
     SubSeq(gzip_compress(XML_PROLOG \o <<1, 2, 1>>), 1, Len(XML_PROLOG) + 4)}

Inputs == PlainInputs \union CompressedInputs \union CorruptInputs

TempoTimes ==
    {FInt(0), Frac(1, 1000), Frac(1, 400), Frac(4, 1250), FInt(1), Frac(-1, 1000)}

QueryTimes == {FInt(-1), FInt(0), Frac(5, 2), FInt(5), FInt(10), FInt(100)}

EventPoints == {<<FInt(t), FInt(v)>> : t \in {0, 5, 10}, v \in {0, 1}}

EventLists == BoundedSeq(EventPoints, MaxEvents)

ClipEnds == {FInt(2), FInt(4), Frac(19, 2)}

\* a clip of the track with oid 0, by its end and whether it is disabled
ClipChoices == ClipEnds \X BOOLEAN

ClipsOf(choices) ==
    [i \in 1..Len(choices) |->
        AbletonClip(i, "AbletonAudioClip", "clip", "DEFAULT", Ref(0), FInt(0),
                    choices[i][1], choices[i][2])]

ClipLists == BoundedSeq(ClipChoices, MaxClips)

(***************************************************************************)
(* State                                                                   *)
(***************************************************************************)
VARIABLES
    input,       \* the bytes handed to parse / probe_content
    content,     \* the local variable content of parse
    pc,          \* the position of parse
    outcome,     \* "project", "none" or "raised" once parse is over
    exc,         \* the exception that left parse
    tree,        \* the local variable tree of parse
    data,        \* the local variable data of parse
    project,     \* the local variable project of parse, then its value
    tracks,      \* the local variable tracks of parse
    log,         \* the warnings and errors logged
    steps,       \* the steps of parse taken so far
    tempo,       \* the last call of get_tempo and its result
    probe,       \* the result of probe_content
    automation,  \* the events of a free-standing automation
    sampled,     \* the last call of get_value_at and its result
    subject,     \* a free-standing track or track element
    answer       \* the last call made on the subject and its result

vars == <<input, content, pc, outcome, exc, tree, data, project, tracks, log, steps,
          tempo, probe, automation, sampled, subject, answer>>

Unset == [kind |-> "unset"]

InitWith(bytes, events, object, at) ==
    /\ input = bytes
    /\ content = bytes
    /\ pc = at
    /\ outcome = "running"
    /\ exc = ""
    /\ tree = Unset
    /\ data = Unset
    /\ project = Unset
    /\ tracks = <<>>
    /\ log = <<>>
    /\ steps = <<>>
    /\ tempo = Unset
    /\ probe = Unset
    /\ automation = events
    /\ sampled = Unset
    /\ subject = object
    /\ answer = Unset

Init == \E bytes \in Inputs : InitWith(bytes, <<>>, Unset, "sniff")

(***************************************************************************)
(* AbletonParser.parse, one action for each of its steps                   *)
(***************************************************************************)
Finish(how, e) == pc' = "done" /\ outcome' = how /\ exc' = e

Goto(next) == pc' = next /\ UNCHANGED <<outcome, exc>>

\* the decompressed bytes are dropped and the raw bytes are kept
DecompressedKeepsRaw(r) ==
    /\ steps' = Append(steps, "decompress")
    /\ UNCHANGED content
    /\ IF r.ok THEN Goto("markup") ELSE Finish("none", "")

\* content = gzip.decompress(content), None when it fails
Decompressed(r) ==
    /\ steps' = Append(steps, "decompress")
    /\ IF r.ok THEN content' = r.val /\ Goto("markup")
       ELSE UNCHANGED content /\ Finish("none", "")

\* if AbletonParser.is_gzip(content): ...
ParseSniff ==
    /\ pc = "sniff"
    /\ IF is_gzip(content) THEN Decompressed(gzip_decompress(content))
       ELSE Goto("markup") /\ UNCHANGED <<content, steps>>
    /\ UNCHANGED <<subject, answer, input, tree, data, project, tracks, log, tempo, probe,
                   automation, sampled>>

\* if not AbletonParser.is_xml(content): return None
ParseMarkupCheck ==
    /\ pc = "markup"
    /\ steps' = Append(steps, "markup_check")
    /\ IF is_xml(content) THEN Goto("xml") ELSE Finish("none", "")
    /\ UNCHANGED <<subject, answer, input, content, tree, data, project, tracks, log, tempo, probe,
                   automation, sampled>>

\* fromstring fails and parse goes on with an empty root
XmlParsedCarriesOn(r) ==
    /\ tree' = (IF r.ok THEN r.val ELSE Element("Ableton", NoAttrib, <<>>))
    /\ Goto("version")

XmlParsed(r) ==
    IF r.ok THEN tree' = r.val /\ Goto("version")
    ELSE UNCHANGED tree /\ Finish("none", "")

\* tree = ET.fromstring(content), None when it fails
ParseXml ==
    /\ pc = "xml"
    /\ steps' = Append(steps, "fromstring")
    /\ XmlParsed(FromString(content))
    /\ UNCHANGED <<subject, answer, input, content, data, project, tracks, log, tempo, probe,
                   automation, sampled>>

VersionParsed(r) ==
    IF r.ok THEN data' = r.val /\ Goto("hash")
    ELSE UNCHANGED data /\ Finish("raised", r.exc)

\* data = self.__parse_and_verify_version(tree)
ParseVersion ==
    /\ pc = "version"
    /\ steps' = Append(steps, "version")
    /\ VersionParsed(parse_and_verify_version(tree))
    /\ UNCHANGED <<subject, answer, input, content, tree, project, tracks, log, tempo, probe,
                   automation, sampled>>

\* hash = hashlib.md5(content).hexdigest(); project = AbletonProject(...)
ParseProject ==
    /\ pc = "hash"
    /\ steps' = Append(steps, "hash")
    /\ project' = AbletonProject(data.major, data.minorA, data.minorB, data.minorC,
                                 data.metadata, md5(content))
    /\ Goto("tracks")
    /\ UNCHANGED <<subject, answer, input, content, tree, data, tracks, log, tempo, probe,
                   automation, sampled>>

\* the project is assembled from an empty list of tracks too
TracksParsedEmptyToo(r) ==
    IF ~r.ok THEN UNCHANGED <<tracks, log>> /\ Finish("raised", r.exc)
    ELSE log' = log \o r.val.log /\ tracks' = r.val.tracks /\ Goto("assemble")

\* what was logged before an exception is not kept
TracksParsed(r) ==
    IF ~r.ok THEN UNCHANGED <<tracks, log>> /\ Finish("raised", r.exc)
    ELSE /\ log' = log \o r.val.log
         /\ tracks' = r.val.tracks
         /\ IF r.val.tracks = <<>> THEN Finish("none", "") ELSE Goto("assemble")

\* tracks = self.__parse_tracks(project, tree); if not tracks: return None
ParseTracks ==
    /\ pc = "tracks"
    /\ steps' = Append(steps, "tracks")
    /\ TracksParsed(parse_tracks(Ref(project.oid), tree, project.oid + 1))
    /\ UNCHANGED <<subject, answer, input, content, tree, data, project, tempo, probe,
                   automation, sampled>>

TracksSet(r) ==
    IF ~r.ok THEN UNCHANGED <<project, log>> /\ Finish("raised", r.exc)
    ELSE /\ project' = r.val.project
         /\ log' = log \o r.val.log
         /\ Finish("project", "")

\* project.set_tracks(tracks); return project
ParseSetTracks ==
    /\ pc = "assemble"
    /\ steps' = Append(steps, "set_tracks")
    /\ TracksSet(set_tracks(project, tracks))
    /\ UNCHANGED <<subject, answer, input, content, tree, data, tracks, tempo, probe,
                   automation, sampled>>

\* project.get_tempo(at) on the project parse returned
GetTempo(at) ==
    /\ pc = "done"
    /\ outcome = "project"
    /\ tempo = Unset
    /\ tempo' = [at |-> at, result |-> get_tempo(project, at)]
    /\ UNCHANGED <<subject, answer, input, content, pc, outcome, exc, tree, data, project, tracks,
                   log, steps, probe, automation, sampled>>

\* the client hands a prefix of the project's own tracks back:
\* project.set_tracks(project.get_tracks()[:k])
TracksReplaced(r, trks) ==
    IF r.ok THEN project' = r.val.project /\ log' = log \o r.val.log
    ELSE /\ project' = [project EXCEPT !.tracks = trks,
                                       !.duration = calculate_duration(trks)]
         /\ UNCHANGED log

SetTracks(k) ==
    /\ pc = "done"
    /\ outcome = "project"
    /\ answer = Unset
    /\ k < Len(project.tracks)
    /\ TracksReplaced(set_tracks(project, SubSeq(project.tracks, 1, k)),
                      SubSeq(project.tracks, 1, k))
    /\ answer' = [op |-> "set_tracks", arg |-> k]
    /\ tempo' = Unset
    /\ UNCHANGED <<subject, input, content, pc, outcome, exc, tree, data, tracks, steps,
                   probe, automation, sampled>>

\* the client empties a track of the project:
\* project.get_tracks()[i - 1].set_clips([])
SetClips(i) ==
    /\ pc = "done"
    /\ outcome = "project"
    /\ answer = Unset
    /\ i <= Len(project.tracks)
    /\ project.tracks[i].clips # <<>>
    /\ project' = [project EXCEPT !.tracks[i].clips = <<>>]
    /\ answer' = [op |-> "set_clips", arg |-> i]
    /\ tempo' = Unset
    /\ UNCHANGED <<subject, input, content, pc, outcome, exc, tree, data, tracks, log,
                   steps, probe, automation, sampled>>

Next ==
    \/ ParseSniff
    \/ ParseMarkupCheck
    \/ ParseXml
    \/ ParseVersion
    \/ ParseProject
    \/ ParseTracks
    \/ ParseSetTracks
    \/ \E at \in TempoTimes : GetTempo(at)
    \/ \E k \in 0..MaxTracks : SetTracks(k)
    \/ \E i \in 1..(MaxTracks + 1) : SetClips(i)

Spec == Init /\ [][Next]_vars

(***************************************************************************)
(* parse_file (src/alsparse.py): a file is its path, whether the path       *)
(* exists, and the bytes read from it.  IMPLEMENTATIONS holds AbletonParser  *)
(* alone.                                                                  *)
(***************************************************************************)
\* the last index up to i where s holds the character c, 0 when there is none
RECURSIVE LastIndexOf(_, _, _)
LastIndexOf(s, c, i) ==
    IF i = 0 THEN 0
    ELSE IF CharAt(s, i) = c THEN i
    ELSE LastIndexOf(s, c, i - 1)

\* os.path.splitext(path)[1]: from the last dot of the last component on,
\* unless only dots precede it in the component
SplitextFrom(path, sep, dot) ==
    IF dot > sep /\ \E k \in (sep + 1)..(dot - 1) : CharAt(path, k) # "."
    THEN SubSeq(path, dot, Len(path))
    ELSE ""

\* extension = os.path.splitext(path)[1][1:]
Extension(path) ==
    IF SplitextFrom(path, LastIndexOf(path, "/", Len(path)),
                    LastIndexOf(path, ".", Len(path))) = ""
    THEN ""
    ELSE SubSeq(path, LastIndexOf(path, ".", Len(path)) + 1, Len(path))

get_supported_extensions == {"als"}

\* how parse_file came by its parser: "missing" for a path that does not
\* exist, "extension", "content", or "none"
SelectedBy(f) ==
    IF ~f.exists THEN "missing"
    ELSE IF Extension(f.path) \in get_supported_extensions THEN "extension"
    ELSE IF probe_content(f.bytes) THEN "content"
    ELSE "none"

\* the parser found is handed the content without a probe of its own
ParseCalledUnprobed(f) == SelectedBy(f) \in {"extension", "content"}

\* if not parser.probe_content(content): return None
ParseCalled(f) ==
    /\ SelectedBy(f) \in {"extension", "content"}
    /\ probe_content(f.bytes)

FilePaths ==
    {"song.als", "song.ALS", "song.xml", "song", ".als", "sets.als/song", "a.b/song.als",
     "song.als.gz"}

FileContents ==
    {XML_PROLOG \o <<1, 2, 1, 2>>, gzip_compress(XML_PROLOG \o <<1, 2, 1>>),
     MinimalDocument, XML_PROLOG \o <<1>>}
    \union OtherBytes \union CorruptInputs

Files == [path : FilePaths, exists : BOOLEAN, bytes : FileContents]

InitFile == \E f \in Files : InitWith(<<>>, <<>>, f, "file")

\* parse_file(path) up to its last line, return parser.parse(content)
ParseFile ==
    /\ pc = "file"
    /\ probe' = [kind |-> "selection", by |-> SelectedBy(subject)]
    /\ IF ParseCalled(subject)
       THEN input' = subject.bytes /\ content' = subject.bytes /\ Goto("sniff")
       ELSE Finish("none", "") /\ UNCHANGED <<input, content>>
    /\ UNCHANGED <<subject, answer, tree, data, project, tracks, log, steps, tempo,
                   automation, sampled>>

NextFile ==
    \/ ParseFile
    \/ Next

SpecFile == InitFile /\ [][NextFile]_vars

(***************************************************************************)
(* AbletonParser.probe_content                                             *)
(***************************************************************************)
ProbeContent ==
    /\ probe = Unset
    /\ probe' = [kind |-> "bool", value |-> probe_content(input)]
    /\ UNCHANGED <<subject, answer, input, content, pc, outcome, exc, tree, data, project, tracks,
                   log, steps, tempo, automation, sampled>>

NextSniff == ProbeContent

SpecSniff == Init /\ [][NextSniff]_vars

(***************************************************************************)
(* AbletonAutomation.get_value_at on a free-standing automation            *)
(***************************************************************************)
InitAutomation == \E events \in EventLists : InitWith(<<>>, events, Unset, "automation")

GetValueAt(time) ==
    /\ pc = "automation"
    /\ sampled' = [time |-> time, result |-> get_value_at(automation, time)]
    /\ UNCHANGED <<subject, answer, input, content, pc, outcome, exc, tree, data, project, tracks,
                   log, steps, tempo, probe, automation>>

NextAutomation == \E time \in QueryTimes : GetValueAt(time)

SpecAutomation == InitAutomation /\ [][NextAutomation]_vars

(***************************************************************************)
(* AbletonTrack.get_duration on a free-standing track after set_clips       *)
(***************************************************************************)
InitDuration ==
    \E choices \in ClipLists :
        InitWith(<<>>, <<>>,
                 AbletonTrack(0, "AbletonAudioTrack", "track", "DEFAULT", None,
                              ClipsOf(choices), <<>>),
                 "duration")

GetDuration ==
    /\ pc = "duration"
    /\ answer = Unset
    /\ answer' = [result |-> get_duration(subject)]
    /\ UNCHANGED <<subject, input, content, pc, outcome, exc, tree, data, project, tracks,
                   log, steps, tempo, probe, automation, sampled>>

NextDuration == GetDuration

SpecDuration == InitDuration /\ [][NextDuration]_vars

(***************************************************************************)
(* AbletonParser.__resolve_automation_target on a free-standing track      *)
(* element: the chain of elements from the track root down to a parameter  *)
(* that holds the AutomationTarget with Id 1                               *)
(***************************************************************************)
TrackRootTags ==
    {"AudioTrack", "MidiTrack", "GroupTrack", "ReturnTrack", "MainTrack",
     "MasterTrack", "PreHearTrack"}

ParamChains ==
    {<<"DeviceChain", "Mixer", "Volume">>,
     <<"DeviceChain", "Mixer", "Pan">>,
     <<"DeviceChain", "Mixer", "On">>,
     <<"DeviceChain", "Mixer", "Sends", "TrackSendHolder", "Send">>,
     <<"DeviceChain", "Mixer", "SplitStereoPanL">>,
     <<"DeviceChain", "Mixer", "SplitStereoPanR">>,
     <<"DeviceChain", "DeviceChain", "Devices">>,
     <<"DeviceChain", "DeviceChain", "Devices", "PluginDevice", "ParameterList">>,
     <<"DeviceChain", "Mixer", "Tempo">>,
     <<"DeviceChain", "Mixer", "TimeSignature">>,
     <<"DeviceChain", "Mixer", "CrossFadeState">>,
     <<"DeviceChain", "FreezeSequencer", "Volume">>}

\* <t1><t2>...<tn><AutomationTarget Id="1"/></tn>...</t2></t1>
RECURSIVE ChainEl(_)
ChainEl(tags) ==
    IF tags = <<>> THEN Element("AutomationTarget", [Id |-> "1"], <<>>)
    ELSE Element(Head(tags), NoAttrib, <<ChainEl(Tail(tags))>>)

InitTarget ==
    \E tag \in TrackRootTags, chain \in ParamChains :
        InitWith(<<>>, <<>>, ChainEl(<<tag>> \o chain), "resolve")

ResolveTarget ==
    /\ pc = "resolve"
    /\ answer = Unset
    /\ answer' = [id |-> 1, result |-> resolve_automation_target(1, subject)]
    /\ UNCHANGED <<subject, input, content, pc, outcome, exc, tree, data, project,
                   tracks, log, steps, tempo, probe, automation, sampled>>

NextTarget == ResolveTarget

SpecTarget == InitTarget /\ [][NextTarget]_vars

(***************************************************************************)
(* AbletonParser.__resolve_automation_target called twice on one track      *)
(* element that holds several AutomationTarget nodes                        *)
(***************************************************************************)
Marker(id) == Element("AutomationTarget", [Id |-> id], <<>>)

Node(tag, children) == Element(tag, NoAttrib, children)

ProbeTrees ==
    {Node("AudioTrack", <<Node("A", <<Node("B", <<Marker("1")>>)>>),
                          Node("C", <<Marker("1")>>)>>),
     Node("AudioTrack", <<Node("A", <<Marker("2")>>), Node("C", <<Marker("1")>>),
                          Node("D", <<Marker("1")>>)>>),
     Node("MidiTrack", <<Marker("1"), Node("A", <<Marker("1")>>)>>),
     Node("MidiTrack", <<Element("AutomationTarget", [Id |-> "2"],
                                 <<Node("X", <<Marker("1")>>)>>)>>),
     Node("GroupTrack", <<Node("A", <<>>),
                          Node("B", <<Node("C", <<>>),
                                      Node("D", <<Marker("3"), Marker("1")>>)>>)>>),
     Node("ReturnTrack", <<>>),
     Node("AudioTrack",
          <<Node("DeviceChain",
                 <<Node("Mixer", <<Node("Volume", <<Marker("1")>>),
                                   Node("Pan", <<Marker("2")>>)>>)>>),
            Node("FreezeSequencer", <<Node("Volume", <<Marker("2")>>)>>)>>)}

WalkTrees ==
    ProbeTrees \union {ChainEl(<<tag>> \o chain) : tag \in TrackRootTags, chain \in ParamChains}

WalkIds == {1, 2, 3}

InitWalk == \E track \in WalkTrees : InitWith(<<>>, <<>>, track, "walk")

\* target = AbletonParser.__resolve_automation_target(id, track); path is the
\* local variable of the resolver after walk
ResolveFirst(id) ==
    /\ pc = "walk"
    /\ answer = Unset
    /\ answer' = [id |-> id, before |-> subject, path |-> walk(<<>>, subject, id),
                  result |-> resolve_automation_target(id, subject),
                  again |-> Unset]
    /\ subject' = TreeAfterWalk(subject)
    /\ UNCHANGED <<input, content, pc, outcome, exc, tree, data, project,
                   tracks, log, steps, tempo, probe, automation, sampled>>

\* the same call once more
ResolveAgain ==
    /\ pc = "walk"
    /\ answer # Unset
    /\ answer.again = Unset
    /\ answer' = [answer EXCEPT !.again = resolve_automation_target(answer.id, subject)]
    /\ subject' = TreeAfterWalk(subject)
    /\ UNCHANGED <<input, content, pc, outcome, exc, tree, data, project,
                   tracks, log, steps, tempo, probe, automation, sampled>>

NextWalk ==
    \/ \E id \in WalkIds : ResolveFirst(id)
    \/ ResolveAgain

SpecWalk == InitWalk /\ [][NextWalk]_vars

(***************************************************************************)
(* tools/visualize: TimeMachine and FileCachedTimeMachine.  The project    *)
(* is subject, the cache file of its hash in the temporary directory is    *)
(* data (Unset while the file does not exist), the time machine of the     *)
(* current run is answer and the last get_slice is sampled.                *)
(***************************************************************************)
RenderInfo(render_system_tracks, render_disabled_clips) ==
    [render_system_tracks |-> render_system_tracks,
     render_disabled_clips |-> render_disabled_clips]

SlicedTrack(name, color, track) ==
    [kind |-> "SlicedTrack", name |-> name, color |-> color, parent |-> track]

\* a clip that is rendered and spans the time
Spans(clip, at, render_info) ==
    /\ render_info.render_disabled_clips \/ ~clip.disabled
    /\ FLeq(clip.start, at)
    /\ FLeq(at, clip.end)

\* __have_track: a SlicedTrack of the track when one of its clips spans the
\* time, None otherwise
have_track(track, at, render_info) ==
    IF \E i \in 1..Len(track.clips) : Spans(track.clips[i], at, render_info)
    THEN SlicedTrack(track.name, track.color, Ref(track.oid))
    ELSE None

\* isinstance(track, (MasterTrack, ReturnTrack, GroupTrack))
IsSystemTrack(track) ==
    track.cls \in {"AbletonMasterTrack", "AbletonReturnTrack", "AbletonGroupTrack"}

\* __filter_tracks: the tracks, the number of slices and actual_tracks
filter_tracks(p, render_info, time_slice) ==
    [render_info |-> render_info,
     time_slice |-> time_slice,
     tracks |-> IF render_info.render_system_tracks THEN p.tracks
                ELSE SelectSeq(p.tracks, LAMBDA t : ~IsSystemTrack(t)),
     slices |-> FTrunc(FDiv(p.duration, time_slice)),
     actual_tracks |-> IF render_info.render_system_tracks THEN Len(p.tracks)
                       ELSE Len(SelectSeq(p.tracks, LAMBDA t : ~IsSystemTrack(t))),
     cache |-> <<>>]

\* _build_cache: one list of slices for each track, then list(map(list,
\* zip(*cache))): one row of tracks for each slice, and no row at all when
\* there is no track
build_cache(m) ==
    IF m.tracks = <<>> THEN <<>>
    ELSE [i \in 1..(IF m.slices > 0 THEN m.slices ELSE 0) |->
             [k \in 1..Len(m.tracks) |->
                 have_track(m.tracks[k], FMul(FInt(i - 1), m.time_slice), m.render_info)]]

\* TimeMachine.get_slice
get_slice(m, at) ==
    IF FTrunc(FDiv(at, m.time_slice)) >= Len(m.cache) \/ FTrunc(FDiv(at, m.time_slice)) < 0
    THEN [k \in 1..m.actual_tracks |-> None]
    ELSE m.cache[FTrunc(FDiv(at, m.time_slice)) + 1]

\* an object that pickle.load has built: a copy of the object of this oid
Copy(oid) == [kind |-> "copy", oid |-> oid]

PickledCell(cell) ==
    IF IsNone(cell) THEN None
    ELSE SlicedTrack(cell.name, cell.color, Copy(cell.parent.oid))

\* pickle.load of pickle.dump of a cache: equal rows of copies
Pickled(cache) ==
    [i \in 1..Len(cache) |-> [k \in 1..Len(cache[i]) |-> PickledCell(cache[i][k])]]

\* time_slice: float = 1 / 1000
CachedTimeSlice == Frac(1, 1000)

\* the tracks the projects are made of; a track has the oid and its clip the
\* oid after it
TrackKinds == {"audio", "muted", "return", "master"}

KindClass(kind) ==
    CASE kind = "audio" -> "AbletonAudioTrack"
      [] kind = "muted" -> "AbletonAudioTrack"
      [] kind = "return" -> "AbletonReturnTrack"
      [] OTHER -> "AbletonMasterTrack"

KindClips(kind, oid) ==
    CASE kind = "audio" ->
             <<AbletonClip(oid + 1, "AbletonAudioClip", "take", "DEFAULT", Ref(oid),
                           FInt(0), Frac(1, 400), FALSE)>>
      [] kind = "muted" ->
             <<AbletonClip(oid + 1, "AbletonAudioClip", "mute", "DEFAULT", Ref(oid),
                           Frac(1, 2000), Frac(7, 2000), TRUE)>>
      [] OTHER -> <<>>

TrackOfKind(kind, oid) ==
    AbletonTrack(oid, KindClass(kind), kind, "DEFAULT", Ref(0), KindClips(kind, oid), <<>>)

CachedProjects ==
    {set_tracks(AbletonProject(11, 0, 0, 0, <<>>, "hash"),
                [i \in 1..Len(kinds) |-> TrackOfKind(kinds[i], 2 * i - 1)]).val.project :
        kinds \in BoundedSeq(TrackKinds, MaxTracks)}

SliceTimes == {FInt(0), Frac(1, 2000), Frac(3, 2000), Frac(1, 100), Frac(-1, 2000)}

InitCache == \E p \in CachedProjects : InitWith(<<>>, <<>>, p, "cache")

\* FileCachedTimeMachine(project, render_info): the cache is loaded from the
\* file of the project's hash when it exists, and built and saved otherwise
FileCachedTimeMachine(render_info) ==
    /\ pc = "cache"
    /\ IF data # Unset
       THEN /\ answer' = [filter_tracks(subject, render_info, CachedTimeSlice)
                             EXCEPT !.cache = data]
            /\ UNCHANGED data
       ELSE /\ answer' = [filter_tracks(subject, render_info, CachedTimeSlice)
                             EXCEPT !.cache = build_cache(
                                 filter_tracks(subject, render_info, CachedTimeSlice))]
            /\ data' = Pickled(build_cache(
                           filter_tracks(subject, render_info, CachedTimeSlice)))
    /\ sampled' = Unset
    /\ UNCHANGED <<subject, input, content, pc, outcome, exc, tree, project, tracks, log,
                   steps, tempo, probe, automation>>

GetSlice(at) ==
    /\ pc = "cache"
    /\ answer # Unset
    /\ sampled' = [at |-> at, row |-> get_slice(answer, at)]
    /\ UNCHANGED <<subject, answer, input, content, pc, outcome, exc, tree, data, project,
                   tracks, log, steps, tempo, probe, automation>>

NextCache ==
    \/ \E rst, rdc \in BOOLEAN : FileCachedTimeMachine(RenderInfo(rst, rdc))
    \/ \E at \in SliceTimes : GetSlice(at)

SpecCache == InitCache /\ [][NextCache]_vars

(***************************************************************************)
(* Properties                                                              *)
(***************************************************************************)
Took(step) == \E i \in 1..Len(steps) : steps[i] = step

\* the times of the events increase
Ascending(events) ==
    \A i \in 1..(Len(events) - 1) : FLt(events[i][1], events[i + 1][1])

Sampled == sampled # Unset

\* C1: value_at(t) of a non-empty, time-ascending event list with t strictly
\* before the first event's time returns the first event's value.
C1_BeforeFirstReturnsFirst ==
    (/\ Sampled
     /\ automation # <<>>
     /\ Ascending(automation)
     /\ FLt(sampled.time, automation[1][1]))
    => sampled.result = Ok(automation[1][2])

\* parse has handed a project to its client
Handed == pc = "done" /\ outcome = "project"

\* parse has returned a project, and the client has changed nothing in it
Returned == Handed /\ answer = Unset

\* the project has no master track, or its master track has no automation
\* whose target is "Tempo"
NoTempoSource(p) ==
    \/ FirstMaster(p.tracks, 1) = 0
    \/ FirstTempo(p.tracks[FirstMaster(p.tracks, 1)].automations, 1) = 0

Warned ==
    \E i \in 1..Len(log) : log[i] \in {"warning: Main track not found",
                                       "warning: Master track not found",
                                       "warning: Tempo automation not found"}

\* C2: a project returned for a document without a master track, or whose
\* master track has no Tempo automation, has a warning recorded and
\* get_tempo(t) returns 0 for every t > 0 instead of failing.
C2_NoMasterTempoIsZero ==
    (Returned /\ NoTempoSource(project))
    => /\ Warned
       /\ (tempo # Unset /\ FLt(FInt(0), tempo.at)) => tempo.result = Ok(FInt(0))

\* the root lacks MajorVersion or MinorVersion, or MinorVersion does not have
\* the form <int>.<int>_<int>
BadVersion(attrib) ==
    \/ "MajorVersion" \notin DOMAIN attrib
    \/ "MinorVersion" \notin DOMAIN attrib
    \/ IsNone(MINOR_REGEX_match(attrib["MinorVersion"]))

\* C3: when the root lacks MajorVersion or MinorVersion, or MinorVersion does
\* not match, parse ends returning no model, never with an exception.
C3_BadVersionReturnsNone ==
    (pc = "done" /\ Took("version") /\ BadVersion(tree.attrib)) => outcome = "none"

MasterTempoEvents(p) ==
    p.tracks[FirstMaster(p.tracks, 1)]
        .automations[FirstTempo(p.tracks[FirstMaster(p.tracks, 1)].automations, 1)]
        .events

SampleIs(events, k, value) ==
    /\ get_value_at(events, FMul(FInt(k), TIME_SLICE)).ok
    /\ get_value_at(events, FMul(FInt(k), TIME_SLICE)).val = value

\* C4: when the master track has a Tempo automation, entry k of the tempo
\* cache is that automation's value_at(k * 1/1000), for every k with
\* 0 <= k < floor(duration / (1/1000)).
C4_CacheSamplesEverySlice ==
    (Returned /\ ~NoTempoSource(project))
    => /\ Len(project.tempo_cache) = FTrunc(FDiv(project.duration, TIME_SLICE))
       /\ \A k \in 0..(Len(project.tempo_cache) - 1) :
              SampleIs(MasterTempoEvents(project), k, project.tempo_cache[k + 1])

\* C5: the hash of the project is the digest of the bytes passed to parse,
\* for plain and for gzip-compressed input alike.
C5_HashOfOriginalBytes ==
    Returned => project.hash = md5(input)

ClassOfTag(tag) ==
    CASE tag = "AudioTrack" -> "AbletonAudioTrack"
      [] tag = "MidiTrack" -> "AbletonMidiTrack"
      [] tag = "GroupTrack" -> "AbletonGroupTrack"
      [] tag = "ReturnTrack" -> "AbletonReturnTrack"
      [] OTHER -> "none"

LiveSetOf(root) == find(root, "LiveSet")

\* the tracks under Tracks with one of the four tags, in document order
ListedTracks(root) ==
    SelectSeq(find(LiveSetOf(root), "Tracks").children, LAMBDA t : t.tag \in TrackTags)

HasMaster(root) ==
    \/ ~IsNone(find(LiveSetOf(root), "MainTrack"))
    \/ ~IsNone(find(LiveSetOf(root), "MasterTrack"))

ExpectedClasses(root) ==
    [i \in 1..Len(ListedTracks(root)) |-> ClassOfTag(ListedTracks(root)[i].tag)]
    \o (IF HasMaster(root) THEN <<"AbletonMasterTrack">> ELSE <<>>)

ClassesOf(trks) == [i \in 1..Len(trks) |-> trks[i].cls]

\* C6: the tracks of the project are the audio, midi, group and return tracks
\* in document order, followed by exactly one master track whenever the
\* document has one.
C6_DocumentOrderThenMaster ==
    Returned => ClassesOf(project.tracks) = ExpectedClasses(tree)

RequiredChains(tag) ==
    {<<"Name", "EffectiveName">>, <<"Color">>, <<"AutomationEnvelopes", "Envelopes">>}
    \union (IF tag = "AudioTrack"
            THEN {<<"DeviceChain", "MainSequencer", "Sample", "ArrangerAutomation", "Events">>}
            ELSE IF tag = "MidiTrack"
            THEN {<<"DeviceChain", "MainSequencer", "ClipTimeable", "ArrangerAutomation",
                    "Events">>}
            ELSE {})

Lacks(track, chain) ==
    ~FindChain(track, chain).ok \/ IsNone(FindChain(track, chain).val)

LacksRequired(track) == \E chain \in RequiredChains(track.tag) : Lacks(track, chain)

\* C7: when a track of the document lacks a required node, parse ends
\* returning no model, not with an exception.
C7_BrokenTrackReturnsNone ==
    (/\ pc = "done"
     /\ Took("tracks")
     /\ \E i \in 1..Len(ListedTracks(tree)) : LacksRequired(ListedTracks(tree)[i]))
    => outcome = "none"

\* what parse loads from the input: the decompressed bytes behind the gzip
\* magic, else the input itself
Loaded(bytes) == IF is_gzip(bytes) THEN gzip_decompress(bytes).val ELSE bytes

DecompressFails(bytes) == is_gzip(bytes) /\ ~gzip_decompress(bytes).ok

LoaderFails(bytes) ==
    \/ DecompressFails(bytes)
    \/ ~is_xml(Loaded(bytes))
    \/ ~FromString(Loaded(bytes)).ok

\* C8: when decompression fails, the loaded bytes do not start with the
\* prolog, or the markup is malformed, parse returns None and neither the
\* version nor the tracks are ever looked at.
C8_LoaderFailureReturnsNone ==
    LoaderFails(input)
    => /\ outcome \in {"running", "none"}
       /\ pc = "done" => outcome = "none"
       /\ ~Took("version") /\ ~Took("hash") /\ ~Took("tracks") /\ ~Took("set_tracks")
       /\ pc \in {"sniff", "markup", "xml", "done"}

C8_MalformedAfterDecompression ==
    /\ pc = "done"
    /\ outcome = "none"
    /\ is_gzip(input)
    /\ ~DecompressFails(input)
    /\ is_xml(content)
    /\ ~FromString(content).ok
    /\ steps = <<"decompress", "markup_check", "fromstring">>

\* C9: for input with the gzip magic, decompression comes before the markup
\* check and the markup check reads the decompressed bytes; for input
\* without the magic there is no decompression.
C9_DecompressBeforeMarkupCheck ==
    /\ (is_gzip(input) /\ ~is_xml(input) /\ pc # "sniff")
       => /\ steps[1] = "decompress"
          /\ \A i \in 1..Len(steps) : steps[i] = "markup_check" => i = 2
          /\ pc = "markup" => content = gzip_decompress(input).val
          /\ Took("markup_check")
             => /\ content = gzip_decompress(input).val
                /\ (pc = "done" /\ Len(steps) = 2) <=> ~is_xml(gzip_decompress(input).val)
    /\ ~is_gzip(input) => (~Took("decompress") /\ content = input)

C9_CheckedDecompressedBytes ==
    /\ is_gzip(input)
    /\ ~is_xml(input)
    /\ steps = <<"decompress", "markup_check">>
    /\ pc = "xml"
    /\ content # input

GzipMagicAt(bytes) == Len(bytes) >= 2 /\ bytes[1] = 31 /\ bytes[2] = 139

PrologAt(bytes) ==
    /\ Len(bytes) >= Len(XML_PROLOG)
    /\ \A i \in 1..Len(XML_PROLOG) : bytes[i] = XML_PROLOG[i]

Probed == probe # Unset

\* C10: probe_content(content) is true iff the first two bytes are 0x1F 0x8B
\* or the content starts with the prolog; it is false for b"random", for the
\* empty input and for the one byte 0x1F.
C10_ProbeIffGzipOrMarkup ==
    Probed
    => /\ probe.value <=> (GzipMagicAt(input) \/ PrologAt(input))
       /\ input \in {<<>>, <<31>>, <<114, 97, 110, 100, 111, 109>>} => ~probe.value

C10_OneByteIsNotGzip == Probed /\ input = <<31>> /\ probe.value = FALSE

\* events i and i + 1 bracket the time
Brackets(events, i, time) ==
    FLeq(events[i][1], time) /\ FLeq(time, events[i + 1][1])

\* (time, value) lies on the line through events i and i + 1:
\* (value - v_i) * (t_{i+1} - t_i) = (v_{i+1} - v_i) * (time - t_i)
OnLine(events, i, time, value) ==
    FMul(FSub(value, events[i][2]), FSub(events[i + 1][1], events[i][1]))
    = FMul(FSub(events[i + 1][2], events[i][2]), FSub(time, events[i][1]))

RampUp == << <<FInt(0), FInt(0)>>, <<FInt(10), FInt(1)>> >>

TimeOrdered(events) ==
    \A i \in 1..(Len(events) - 1) : FLeq(events[i][1], events[i + 1][1])

\* C12: value_at(t) is 0 when there are no events, and the last event's
\* value when t is strictly after the last event's time, for a list of one
\* event too (the events in time order, as the data model has them).
C12_EmptyIsZeroAfterLastIsLast ==
    Sampled
    => /\ automation = <<>> => sampled.result = Ok(FInt(0))
       /\ (/\ automation # <<>>
           /\ TimeOrdered(automation)
           /\ FLt(automation[Len(automation)][1], sampled.time))
          => sampled.result = Ok(automation[Len(automation)][2])

C12_PastTheEndOfTheRamp ==
    /\ Sampled
    /\ automation = RampUp
    /\ sampled.time = FInt(100)
    /\ sampled.result = Ok(FInt(1))

\* the ids of the AutomationTarget nodes of a subtree
RECURSIVE TargetIds(_)
TargetIds(node) ==
    (IF node.tag = "AutomationTarget" THEN {ParseInt(node.attrib["Id"]).val} ELSE {})
    \union UNION {TargetIds(node.children[i]) : i \in 1..Len(node.children)}

\* the envelope elements of a track element
EnvelopeEls(track) ==
    IF Lacks(track, <<"AutomationEnvelopes", "Envelopes">>) THEN <<>>
    ELSE FindChain(track, <<"AutomationEnvelopes", "Envelopes">>).val.children

PointeeOf(envelope) ==
    ParseInt(ChainAttrib(envelope, <<"EnvelopeTarget", "PointeeId">>, "Value").val).val

\* the target id of the envelope matches no AutomationTarget of the track
Unresolved(track, envelope) == PointeeOf(envelope) \notin TargetIds(track)

EventEls(envelope) == FindChain(envelope, <<"Automation", "Events">>).val.children

HasUnresolved(track) ==
    \E j \in 1..Len(EnvelopeEls(track)) : Unresolved(track, EnvelopeEls(track)[j])

ErrorReported ==
    \E k \in 1..Len(log) : log[k] = "error: Failed to resolve automation target"

TreeParsed == tree # Unset

\* C13: when the target id of an envelope matches no AutomationTarget of its
\* track, an error is reported, the automation is recorded with no target
\* and with its events, and the other envelopes and tracks are parsed all
\* the same.
C13_UnresolvedTargetIsRecorded ==
    /\ TreeParsed
       => \A i \in 1..Len(ListedTracks(tree)) :
              (HasUnresolved(ListedTracks(tree)[i]) /\ ~LacksRequired(ListedTracks(tree)[i]))
              => ParseTrackElement(Ref(0), ListedTracks(tree)[i], 1).ok
    /\ Returned
       => \A i \in 1..Len(ListedTracks(tree)) :
              /\ Len(project.tracks) >= Len(ListedTracks(tree))
              /\ Len(project.tracks[i].automations) = Len(EnvelopeEls(ListedTracks(tree)[i]))
              /\ \A j \in 1..Len(EnvelopeEls(ListedTracks(tree)[i])) :
                     Unresolved(ListedTracks(tree)[i], EnvelopeEls(ListedTracks(tree)[i])[j])
                     => /\ project.tracks[i].automations[j].target = <<>>
                        /\ Len(project.tracks[i].automations[j].events)
                           = Len(EventEls(EnvelopeEls(ListedTracks(tree)[i])[j]))
                        /\ ErrorReported

C13_UnresolvedThenResolved ==
    /\ Returned
    /\ ErrorReported
    /\ Len(project.tracks) = 3
    /\ Len(project.tracks[1].automations) = 2
    /\ project.tracks[1].automations[1].target = <<>>
    /\ Len(project.tracks[1].automations[1].events) = 2
    /\ project.tracks[1].automations[2].target = <<"Pan">>
    /\ project.tracks[2].cls = "AbletonMidiTrack"
    /\ project.tracks[3].cls = "AbletonMasterTrack"

\* the tags from the root of a chain element down to the parameter
RECURSIVE RawPath(_)
RawPath(node) ==
    IF node.tag = "AutomationTarget" THEN <<>>
    ELSE <<node.tag>> \o RawPath(node.children[1])

CollapsedTags == {"AudioTrack", "MidiTrack", "GroupTrack", "ReturnTrack", "MainTrack"}

\* the alias of a parameter chain that every track type has, "" for none
AliasOf(chain) ==
    CASE chain = <<"DeviceChain", "Mixer", "Volume">> -> "Volume"
      [] chain = <<"DeviceChain", "Mixer", "Pan">> -> "Pan"
      [] chain = <<"DeviceChain", "Mixer", "On">> -> "On"
      [] chain = <<"DeviceChain", "Mixer", "Sends", "TrackSendHolder", "Send">> -> "Send"
      [] chain = <<"DeviceChain", "DeviceChain", "Devices">> -> "Plugins"
      [] OTHER -> ""

\* the alias of a parameter chain of the master track alone, "" for none
MasterAliasOf(chain) ==
    CASE chain = <<"DeviceChain", "Mixer", "Tempo">> -> "Tempo"
      [] chain = <<"DeviceChain", "Mixer", "TimeSignature">> -> "TimeSignature"
      [] OTHER -> ""

ContainsEntry(path) ==
    \E k \in 1..Len(AUTOMATION_SHORTCUTS) : IndexOf(path, AUTOMATION_SHORTCUTS[k][1], 1) # 0

Answered == answer # Unset

\* the tags of the elements the parser makes tracks of: the four under
\* Tracks, MainTrack, and MasterTrack, which it falls back to for the master
TrackTypeTags == CollapsedTags \union {"MasterTrack"}

\* C14: for every track type, the master included, the paths
\* <TrackTag>.DeviceChain.Mixer.Volume, .Pan, .On, .Sends.TrackSendHolder.Send
\* and <TrackTag>.DeviceChain.DeviceChain.Devices become Volume, Pan, On, Send
\* and Plugins, the Mixer.Tempo and Mixer.TimeSignature paths of the master
\* track become Tempo and TimeSignature, and a path that holds no entry of
\* the table stays as it is.
C14_EveryTrackTypeCollapses ==
    (Answered /\ pc = "resolve")
    => /\ answer.result.ok
       /\ (subject.tag \in TrackTypeTags /\ AliasOf(Tail(RawPath(subject))) # "")
          => answer.result.val.target = <<AliasOf(Tail(RawPath(subject)))>>
       /\ (subject.tag = "MainTrack" /\ MasterAliasOf(Tail(RawPath(subject))) # "")
          => answer.result.val.target = <<MasterAliasOf(Tail(RawPath(subject)))>>
       /\ ~ContainsEntry(Join(RawPath(subject)))
          => answer.result.val.target = <<Join(RawPath(subject))>>

\* what holds of the table: the same with the five tags it is expanded for
TableTagsCollapse ==
    (Answered /\ pc = "resolve")
    => /\ answer.result.ok
       /\ (subject.tag \in CollapsedTags /\ AliasOf(Tail(RawPath(subject))) # "")
          => answer.result.val.target = <<AliasOf(Tail(RawPath(subject)))>>
       /\ (subject.tag = "MainTrack" /\ MasterAliasOf(Tail(RawPath(subject))) # "")
          => answer.result.val.target = <<MasterAliasOf(Tail(RawPath(subject)))>>
       /\ ~ContainsEntry(Join(RawPath(subject)))
          => answer.result.val.target = <<Join(RawPath(subject))>>

\* the decimal numeral of a natural number
RECURSIVE Decimal(_)
Decimal(n) ==
    IF n < 10 THEN SubSeq("0123456789", n + 1, n + 1)
    ELSE Decimal(n \div 10) \o SubSeq("0123456789", (n % 10) + 1, (n % 10) + 1)

\* the version step has returned its tuple
Versioned == data # Unset

\* <a>.<b>_<c> as it is written in a MinorVersion attribute
MinorNumeral(a, b, c) == Decimal(a) \o "." \o Decimal(b) \o "_" \o Decimal(c)

\* s begins with the numeral, and the numeral's last number ends there
BeginsWithNumeral(s, numeral) ==
    /\ StartsWith(s, numeral)
    /\ CharAt(s, Len(numeral) + 1) \notin Digits

\* C15: the version step turns MajorVersion into major, its integer value,
\* and the three integer components of MinorVersion, in order, into minorA,
\* minorB and minorC: MajorVersion "5" with MinorVersion "10.0_377" gives
\* (5, 10, 0, 377).
C15_VersionComponentsInOrder ==
    Versioned
    => /\ Decimal(data.major) = tree.attrib["MajorVersion"]
       /\ BeginsWithNumeral(tree.attrib["MinorVersion"],
                            MinorNumeral(data.minorA, data.minorB, data.minorC))
       /\ (tree.attrib["MajorVersion"] = "5" /\ tree.attrib["MinorVersion"] = "10.0_377")
          => /\ data.major = 5
             /\ data.minorA = 10
             /\ data.minorB = 0
             /\ data.minorC = 377

\* the version step has resolved 5 / 10.0_377
C15_ResolvedFiveTenZero ==
    /\ Versioned
    /\ Took("version")
    /\ tree.attrib["MajorVersion"] = "5"
    /\ tree.attrib["MinorVersion"] = "10.0_377"
    /\ data.minorC = 377

\* the project has been built from the version data
ProjectBuilt == project # Unset

\* C16: the metadata of the project holds exactly the attributes of the root
\* other than MajorVersion and MinorVersion, each under its key with its
\* string value: neither version attribute is in it, no other one is missing.
C16_MetadataIsTheOtherAttributes ==
    ProjectBuilt
    => /\ DOMAIN project.metadata = (DOMAIN tree.attrib) \ {"MajorVersion", "MinorVersion"}
       /\ \A key \in DOMAIN project.metadata : project.metadata[key] = tree.attrib[key]

\* a project built from a root with two attributes besides the version
C16_RevisionAndSchemaKept ==
    /\ ProjectBuilt
    /\ Took("hash")
    /\ DOMAIN tree.attrib = {"MajorVersion", "MinorVersion", "Revision", "SchemaChangeCount"}
    /\ project.metadata = [Revision |-> "f7eb4c8e", SchemaChangeCount |-> "3"]

\* the ends of the clips, in the order of the clips
Ends(clips) == [i \in 1..Len(clips) |-> clips[i].end]

\* m is the greatest of the ends
IsMaximum(m, ends) ==
    /\ \E i \in 1..Len(ends) : ends[i] = m
    /\ \A i \in 1..Len(ends) : FLeq(ends[i], m)

\* C17: the duration of a track is the greatest end of its clips, disabled
\* ones included, and 0 when it has no clips; clips that end at 4.0, 9.5 and
\* 2.0 give 9.5.
C17_TrackDurationIsGreatestEnd ==
    (Answered /\ pc = "duration")
    => /\ subject.clips = <<>> => answer.result = FInt(0)
       /\ subject.clips # <<>> => IsMaximum(answer.result, Ends(subject.clips))
       /\ Ends(subject.clips) = <<FInt(4), Frac(19, 2), FInt(2)>>
          => answer.result = Frac(19, 2)

\* the clips end at 4.0, 9.5 and 2.0, and the one that ends last is disabled
C17_LongestClipDisabled ==
    /\ Answered
    /\ pc = "duration"
    /\ Ends(subject.clips) = <<FInt(4), Frac(19, 2), FInt(2)>>
    /\ subject.clips[2].disabled
    /\ answer.result = Frac(19, 2)

\* the durations of the tracks, in the order of the tracks
Durations(trks) == [i \in 1..Len(trks) |-> get_duration(trks[i])]

\* the client has called set_clips since the last set_tracks
ClipsDropped == answer # Unset /\ answer.op = "set_clips"

\* C18: once set_tracks has run, the duration of the project is the greatest
\* duration of its tracks, 0 when it has none; the document with one audio
\* track that holds one clip from 0 to 4, and no automation, becomes a
\* project with one track whose clip ends at 4.0 and whose duration is 4.0.
C18_ProjectDurationIsGreatestTrack ==
    (Handed /\ ~ClipsDropped)
    => /\ project.tracks = <<>> => project.duration = FInt(0)
       /\ project.tracks # <<>> => IsMaximum(project.duration, Durations(project.tracks))
       /\ (input = MinimalDocument /\ Returned)
          => /\ Len(project.tracks) = 1
             /\ Ends(project.tracks[1].clips) = <<FInt(4)>>
             /\ project.tracks[1].automations = <<>>
             /\ project.duration = FInt(4)

\* the minimal document has been parsed into a project four beats long
C18_MinimalDocumentParsed ==
    /\ Returned
    /\ Took("set_tracks")
    /\ input = MinimalDocument
    /\ project.duration = FInt(4)

\* get_tempo has been asked on a project whose tempo cache was built
TempoAsked == Returned /\ ~NoTempoSource(project) /\ tempo # Unset

\* C19: on a project with a built tempo cache, get_tempo at the project start
\* returns the base value, the value of the Tempo automation at 0; at any
\* other time it returns the cache entry at index floor(at / (1/1000)), and
\* there is such an entry for every time with 0 < at < duration.
C19_TempoLookupWithinDuration ==
    TempoAsked
    => /\ tempo.at = ProjectStart
          => /\ tempo.result = Ok(project.base_tempo)
             /\ get_value_at(MasterTempoEvents(project), FInt(0)) = Ok(project.base_tempo)
       /\ (FLt(ProjectStart, tempo.at) /\ FLt(tempo.at, project.duration))
          => /\ tempo.result.ok
             /\ tempo.result.val
                    = project.tempo_cache[FTrunc(FDiv(tempo.at, TIME_SLICE)) + 1]

\* C20: the assembled model is immutable: once parse has returned a project,
\* no operation of the project, its tracks, clips or automations changes its
\* tracks, clips, automations, duration or tempo cache, so that the duration
\* and the tempo cache are computed once, right after the tracks are set.
C20_AssembledModelIsImmutable ==
    [][Handed => project' = project]_vars

\* the same target id has been resolved twice on the same track element
ResolvedTwice == pc = "walk" /\ Answered /\ answer.again # Unset

RECURSIVE Preorder(_, _)
RECURSIVE PreorderAll(_, _, _)
Preorder(path, node) ==
    <<[path |-> path, node |-> node]>>
    \o PreorderAll(Append(path, node.tag), node.children, 1)

PreorderAll(path, children, i) ==
    IF i > Len(children) THEN <<>>
    ELSE Preorder(path, children[i]) \o PreorderAll(path, children, i + 1)

\* an AutomationTarget node whose Id is the id
IsMarked(node, id) ==
    /\ node.tag = "AutomationTarget"
    /\ "Id" \in DOMAIN node.attrib
    /\ ParseInt(node.attrib["Id"]) = Ok(id)

Marked(entries, id) == {k \in 1..Len(entries) : IsMarked(entries[k].node, id)}

FirstMarked(entries, id) ==
    CHOOSE k \in Marked(entries, id) : \A j \in Marked(entries, id) : k <= j

\* C23: the resolver walks the track element depth-first in pre-order; at
\* the first AutomationTarget node whose Id is the requested id it returns
\* the tags of that node's ancestors, from the track root down to its
\* parent, joined by '.'; later nodes with the same Id are never used, and
\* without such a node the target is unresolved.
C23_FirstMatchInPreorderWins ==
    (pc = "walk" /\ Answered)
    => LET entries == Preorder(<<>>, answer.before)
       IN  /\ Marked(entries, answer.id) # {}
              => /\ answer.path.found
                 /\ answer.path.path = entries[FirstMarked(entries, answer.id)].path
                 /\ answer.result.ok
                 /\ answer.result.val.target
                      = <<ApplyShortcuts(Join(answer.path.path), AUTOMATION_SHORTCUTS)>>
                 /\ ~ContainsEntry(Join(answer.path.path))
                    => answer.result.val.target = <<Join(answer.path.path)>>
           /\ Marked(entries, answer.id) = {}
              => /\ ~answer.path.found
                 /\ answer.result.ok
                 /\ answer.result.val.target = <<>>

\* the deeper, earlier marker is taken and the shallower, later one is not
C23_DeeperEarlierMarkerTaken ==
    /\ pc = "walk"
    /\ Answered
    /\ Cardinality(Marked(Preorder(<<>>, answer.before), answer.id)) = 2
    /\ answer.result.val.target = <<"AudioTrack.A.B">>

\* parse_file has run up to its call of parse or its return of None
FileTried == pc # "file" /\ probe # Unset

\* parse has been called: it is under way, or it has taken a step
ParseInvoked == pc # "done" \/ steps # <<>>

\* C22: parse_file takes the parser that supports the extension of the file
\* and, only when none does, the one whose probe accepts the content; either
\* way parse is called only when the probe of the parser accepts the
\* content, and otherwise no project is returned.  A path that does not
\* exist, or content that no parser accepts, gives no project either.
C22_ParseOnlyAfterProbe ==
    FileTried
    => /\ probe.by = "extension"
          <=> (subject.exists /\ Extension(subject.path) = "als")
       /\ probe.by = "content"
          <=> (subject.exists /\ Extension(subject.path) # "als"
                 /\ probe_content(subject.bytes))
       /\ ParseInvoked
          => /\ subject.exists
             /\ probe_content(subject.bytes)
             /\ input = subject.bytes
       /\ (~subject.exists \/ ~probe_content(subject.bytes))
          => pc = "done" /\ outcome = "none" /\ steps = <<>>
       /\ (subject.exists /\ probe_content(subject.bytes)) => ParseInvoked

\* a file with the extension of the parser whose content the probe refuses
C22_ExtensionMatchesContentDoesNot ==
    /\ FileTried
    /\ probe.by = "extension"
    /\ ~probe_content(subject.bytes)
    /\ outcome = "none"
    /\ steps = <<>>

\* the element the parser takes for the master track
MasterSource(root) ==
    IF Truthy(find(LiveSetOf(root), "MainTrack")) THEN find(LiveSetOf(root), "MainTrack")
    ELSE find(LiveSetOf(root), "MasterTrack")

\* the element track i of the project was parsed from
SourceOf(root, i) ==
    IF i <= Len(ListedTracks(root)) THEN ListedTracks(root)[i] ELSE MasterSource(root)

\* the value the claim gives an event whose Value attribute is raw
ExpectedValue(raw) ==
    IF raw = "true" THEN FInt(1)
    ELSE IF raw = "false" THEN FInt(0)
    ELSE ParseFloat(raw).val

\* the points the claim gives the events of an envelope, in document order
ExpectedPoints(events) ==
    [k \in 1..Len(events) |->
        <<ParseFloat(events[k].attrib["Time"]).val,
          ExpectedValue(events[k].attrib["Value"])>>]

\* C24: the value of every envelope event is 1 for the raw Value "true", 0
\* for "false", and the float parse of the attribute otherwise; the events
\* of an automation are recorded in document order with their times as they
\* are: none is moved and none is dropped.
C24_EventsAsWritten ==
    Returned
    => \A i \in 1..Len(project.tracks) :
          /\ Len(project.tracks[i].automations) = Len(EnvelopeEls(SourceOf(tree, i)))
          /\ \A j \in 1..Len(project.tracks[i].automations) :
                 project.tracks[i].automations[j].events
                     = ExpectedPoints(EventEls(EnvelopeEls(SourceOf(tree, i))[j]))

\* events written with descending times, the last one a boolean
C24_DescendingTimesKept ==
    /\ Returned
    /\ project.tracks[1].cls = "AbletonReturnTrack"
    /\ project.tracks[1].automations[1].events
           = <<<<FInt(2), Frac(3, 4)>>, <<FInt(1), Frac(1, 4)>>, <<FInt(1), FInt(1)>>>>

(***************************************************************************)
(* Parents                                                                 *)
(***************************************************************************)
\* the clips and the automations of a track
Children(track) == track.clips \o track.automations

ChildrenOf(track) == {Children(track)[j] : j \in 1..Len(Children(track))}

RECURSIVE FlatChildren(_, _)
FlatChildren(trks, i) ==
    IF i > Len(trks) THEN <<>> ELSE Children(trks[i]) \o FlatChildren(trks, i + 1)

FlatIndex(p) == FlatChildren(p.tracks, 1)

\* the oids of the project, of its tracks and of their children, one entry
\* for every object
Oids(p) ==
    <<p.oid>> \o [i \in 1..Len(p.tracks) |-> p.tracks[i].oid]
    \o [i \in 1..Len(FlatIndex(p)) |-> FlatIndex(p)[i].oid]

\* C25: in every parsed project the parent of every clip and automation is
\* the track whose list holds it, the parent of every track is the project
\* and the project has no parent; no two objects are the same, a track is
\* created before its children, and all this stays so while the caller
\* holds the project.
C25_ParentIsTheContainer ==
    Handed
    => /\ project.parent = None
       /\ \A i \in 1..Len(project.tracks) :
              /\ project.tracks[i].parent = Ref(project.oid)
              /\ \A child \in ChildrenOf(project.tracks[i]) :
                     /\ child.parent = Ref(project.tracks[i].oid)
                     /\ child.oid > project.tracks[i].oid
       /\ \A i, j \in 1..Len(Oids(project)) : Oids(project)[i] = Oids(project)[j] => i = j

\* a project of two tracks or more is returned, one with a clip and one
\* with an automation
C25_ClipsAndAutomationsParented ==
    /\ Returned
    /\ Len(project.tracks) >= 2
    /\ \E i \in 1..Len(project.tracks) : project.tracks[i].clips # <<>>
    /\ \E i \in 1..Len(project.tracks) : project.tracks[i].automations # <<>>

\* C26: value_at(t) gives a value for every non-empty event list whose times
\* do not decrease and for every t, also when two consecutive events have
\* the same time T and t = T.
C26_ValueAtNeverFails ==
    (Sampled /\ automation # <<>> /\ TimeOrdered(automation)) => sampled.result.ok

\* C27: after set_tracks the base tempo and the tempo cache are those of the
\* current tracks: without a master track or a Tempo automation among them
\* the base tempo is 0 and the cache is empty.
C27_TempoFollowsCurrentTracks ==
    (Handed /\ answer # Unset /\ answer.op = "set_tracks" /\ NoTempoSource(project))
    => project.base_tempo = FInt(0) /\ project.tempo_cache = <<>>

\* the elements under Tracks, and those of them with a tag the parser knows
UnderTracks(root) == find(LiveSetOf(root), "Tracks").children

\* a master track is found under MainTrack or under MasterTrack
MasterFound(root) == FindMasterTrack(root).ok /\ Truthy(FindMasterTrack(root).val)

UnknownWarnings(entries) ==
    Len(SelectSeq(entries, LAMBDA e : e = "warning: Unknown track type"))

\* C28: every project that parse returns has a track; when no element under
\* Tracks has a known tag and no master track is found, parse returns no
\* model although the version was resolved; an element of an unknown tag
\* under Tracks costs a warning and nothing else: the tracks are those of
\* the same list without it.
C28_ReturnedProjectHasTracks ==
    /\ Returned => Len(project.tracks) >= 1
    /\ (pc = "done" /\ Took("tracks") /\ ListedTracks(tree) = <<>> /\ ~MasterFound(tree))
       => outcome = "none" /\ data # Unset
    /\ TreeParsed
       => LET all == ParseTrackElements(Ref(0), UnderTracks(tree), 1, <<>>, <<>>, 1)
              known == ParseTrackElements(Ref(0), ListedTracks(tree), 1, <<>>, <<>>, 1)
          IN  /\ all.ok = known.ok
              /\ all.ok => /\ all.val.tracks = known.val.tracks
                           /\ UnknownWarnings(all.val.log)
                              = Len(UnderTracks(tree)) - Len(ListedTracks(tree))
    /\ (Returned /\ Len(UnderTracks(tree)) > Len(ListedTracks(tree)))
       => UnknownWarnings(log) = Len(UnderTracks(tree)) - Len(ListedTracks(tree))

\* a document whose only element under Tracks has an unknown tag and that
\* has no master track: no model
C28_OnlyUnknownTagNoModel ==
    /\ pc = "done"
    /\ outcome = "none"
    /\ Took("tracks")
    /\ Len(UnderTracks(tree)) = 1
    /\ ListedTracks(tree) = <<>>
    /\ UnknownWarnings(log) = 1

\* the master track is found under MasterTrack only
FallbackOnly(root) ==
    /\ ~Truthy(find(LiveSetOf(root), "MainTrack"))
    /\ Truthy(find(LiveSetOf(root), "MasterTrack"))

\* envelope j of the track element points at the parameter of this raw path
PointsAt(track, j, raw) ==
    /\ walk(<<>>, track, PointeeOf(EnvelopeEls(track)[j])).found
    /\ Join(walk(<<>>, track, PointeeOf(EnvelopeEls(track)[j])).path) = raw

\* C29: when the master track is found under MasterTrack only, its tempo
\* curve, of the raw path MasterTrack.DeviceChain.Mixer.Tempo, has the target
\* "Tempo", and the tempo cache is built from it as for a MainTrack.
C29_FallbackTempoIsCanonical ==
    (Returned /\ FallbackOnly(tree))
    => \A j \in 1..Len(EnvelopeEls(MasterSource(tree))) :
           PointsAt(MasterSource(tree), j, "MasterTrack.DeviceChain.Mixer.Tempo")
           => /\ project.tracks[Len(project.tracks)].automations[j].target = <<"Tempo">>
              /\ ~NoTempoSource(project)
              /\ Len(project.tempo_cache) = FTrunc(FDiv(project.duration, TIME_SLICE))

\* C30: the cache file is keyed by the content hash alone, and over runs
\* on one content with different render settings every row that get_slice
\* returns has as many entries as get_actual_tracks().
C30_RowsAsLongAsActualTracks ==
    (pc = "cache" /\ sampled # Unset) => Len(sampled.row) = answer.actual_tracks

====
